---- MODULE Spec2Model ----
(***************************************************************************)
(* Model of wakame-tech/small_browser: the markup parser (html.rs), the    *)
(* document tree and its mutation/query operations (dom.rs), selectors and *)
(* the stylesheet parser (css.rs), the style resolver (style.rs), the     *)
(* layout of the box tree (layout.rs), the pipeline of main.rs, the script *)
(* engine on the global DOM (engine/, renderer/), the binary form of a     *)
(* tree (write_as_bin, fetch_dom) and the v8 binding (binding.rs).         *)
(*                                                                         *)
(* Text is a sequence of one-character strings.  A parser is an operator   *)
(* of the input s and a start index i that returns                         *)
(*   [status, out, pos]                                                    *)
(* where status is one of combine's four outcomes (PeekOk, CommitOk,       *)
(* PeekErr, CommitErr) and pos is the index of the first unread character. *)
(***************************************************************************)
EXTENDS Integers, Sequences, FiniteSets, TLC

VARIABLES src, pad, call, ret, dom, last, ops, mutex, file, handles

vars == <<src, pad, call, ret, dom, last, ops, mutex, file, handles>>

----------------------------------------------------------------------------
(* Characters *)

\* char::is_alphabetic, restricted to the characters the model uses
Letters ==
    {"a", "b", "c", "d", "e", "h", "i", "k", "l", "m", "n", "o", "p", "r", "s",
     "t", "v", "x", "y"}

\* char::is_whitespace, restricted to the characters the model uses
Whitespace == {" ", "\n"}

Ok(r) == r.status \in {"PeekOk", "CommitOk"}

PeekErr(i) == [status |-> "PeekErr", out |-> <<>>, pos |-> i]

CommitErr(i) == [status |-> "CommitErr", out |-> <<>>, pos |-> i]

At(s, i, c) == i <= Len(s) /\ s[i] = c

RECURSIVE many_in(_, _, _)
\* many(satisfy(|c| c in C)): index after the longest run of C at i
many_in(s, i, C) ==
    IF i <= Len(s) /\ s[i] \in C THEN many_in(s, i + 1, C) ELSE i

RECURSIVE many_not(_, _, _)
\* many(satisfy(|c| c != x)): index after the longest run without x at i
many_not(s, i, x) ==
    IF i <= Len(s) /\ s[i] # x THEN many_not(s, i + 1, x) ELSE i

\* many(space().or(newline())): never fails
blank(s, i) == many_in(s, i, Whitespace)

RECURSIVE trim_start(_)
trim_start(t) ==
    IF t # <<>> /\ Head(t) \in Whitespace THEN trim_start(Tail(t)) ELSE t

RECURSIVE trim_end(_)
trim_end(t) ==
    IF t # <<>> /\ t[Len(t)] \in Whitespace
    THEN trim_end(SubSeq(t, 1, Len(t) - 1)) ELSE t

\* str::trim
trim(t) == trim_end(trim_start(t))

----------------------------------------------------------------------------
(* Document tree (dom.rs) *)

\* AttrMap::new()
AttrMap_new == [k \in {} |-> <<>>]

RECURSIVE AttrMap_from_iter(_)
\* AttrMap::from_iter: a later pair with the same key overwrites
AttrMap_from_iter(attrs) ==
    IF attrs = <<>> THEN AttrMap_new
    ELSE LET m == AttrMap_from_iter(SubSeq(attrs, 1, Len(attrs) - 1))
             kv == attrs[Len(attrs)]
         IN [k \in DOMAIN m \cup {kv[1]} |-> IF k = kv[1] THEN kv[2] ELSE m[k]]

\* mutant: the children are not stored
Element_new_childless(name, attributes, children) ==
    [node_type |-> [tag |-> "Element", tag_name |-> name,
                    attributes |-> attributes, data |-> <<>>],
     children |-> <<>>]

\* Element::new
Element_new(name, attributes, children) ==
    [node_type |-> [tag |-> "Element", tag_name |-> name,
                    attributes |-> attributes, data |-> <<>>],
     children |-> children]

\* Text::new
Text_new(text) ==
    [node_type |-> [tag |-> "Text", tag_name |-> <<>>,
                    attributes |-> AttrMap_new, data |-> text],
     children |-> <<>>]

IsText(n) == n.node_type.tag = "Text"

IsElement(n) == n.node_type.tag = "Element"

----------------------------------------------------------------------------
(* Markup parser (html.rs) *)

\* attribute, after the closing quote was looked for at j4
attribute_value(s, i, j1, j3, j4) ==
    IF j4 = j3 + 1 THEN CommitErr(j4)
    ELSE IF ~At(s, j4, "\"") THEN CommitErr(j4)
    ELSE [status |-> "CommitOk",
          out |-> <<SubSeq(s, i, j1 - 1), SubSeq(s, j3 + 1, j4 - 1)>>,
          pos |-> j4 + 1]

\* attribute, after the blank behind '=' was skipped up to j3
attribute_quote(s, i, j1, j3) ==
    IF ~At(s, j3, "\"") THEN CommitErr(j3)
    ELSE attribute_value(s, i, j1, j3, many_not(s, j3 + 1, "\""))

\* attribute, after the blank behind the name was skipped up to j2
attribute_eq(s, i, j1, j2) ==
    IF ~At(s, j2, "=") THEN CommitErr(j2)
    ELSE attribute_quote(s, i, j1, blank(s, j2 + 1))

\* attribute, after the letters of the name were read up to j1
attribute_name(s, i, j1) ==
    IF j1 = i THEN PeekErr(i)
    ELSE attribute_eq(s, i, j1, blank(s, j1))

\* (many1(letter()), blank(), char('='), blank(), between('"', '"', many1(..)))
attribute(s, i) == attribute_name(s, i, many_in(s, i, Letters))

RECURSIVE sep_end_by(_, _, _)

\* one round of sep_end_by, after attribute() gave a at i
sep_end_by_next(s, i, acc, a) ==
    IF a.status = "PeekErr"
    THEN [status |-> IF acc = <<>> THEN "PeekOk" ELSE "CommitOk",
          out |-> acc, pos |-> i]
    ELSE IF a.status = "CommitErr" THEN a
    ELSE sep_end_by(s, blank(s, a.pos), Append(acc, a.out))

\* sep_end_by(attribute(), blank()) with the pairs read so far in acc
sep_end_by(s, i, acc) == sep_end_by_next(s, i, acc, attribute(s, i))

\* .map(|attrs| AttrMap::from_iter(attrs))
attributes_map(r) ==
    IF Ok(r) THEN [r EXCEPT !.out = AttrMap_from_iter(r.out)] ELSE r

attributes(s, i) == attributes_map(sep_end_by(s, i, <<>>))

\* open_tag, after attributes() gave a behind the name that ends before j1
open_tag_close(s, i, j1, a) ==
    IF ~Ok(a) THEN CommitErr(a.pos)
    ELSE IF ~At(s, a.pos, ">") THEN CommitErr(a.pos)
    ELSE [status |-> "CommitOk",
          out |-> <<SubSeq(s, i + 1, j1 - 1), a.out>>,
          pos |-> a.pos + 1]

\* open_tag, after the letters of the name were read up to j1
open_tag_name(s, i, j1) ==
    IF ~At(s, i, "<") THEN PeekErr(i)
    ELSE IF j1 = i + 1 THEN CommitErr(j1)
    ELSE open_tag_close(s, i, j1, attributes(s, blank(s, j1)))

\* (char('<'), many1(letter()), blank(), attributes(), char('>'))
open_tag(s, i) == open_tag_name(s, i, many_in(s, i + 1, Letters))

\* close_tag, after the letters of the name were read up to j1
close_tag_name(s, i, j1) ==
    IF ~At(s, i, "<") THEN PeekErr(i)
    ELSE IF ~At(s, i + 1, "/") THEN CommitErr(i + 1)
    ELSE IF j1 = i + 2 THEN CommitErr(j1)
    ELSE IF ~At(s, j1, ">") THEN CommitErr(j1)
    ELSE [status |-> "CommitOk", out |-> SubSeq(s, i + 2, j1 - 1),
          pos |-> j1 + 1]

\* (char('<'), char('/'), many1(letter()), char('>'))
close_tag(s, i) == close_tag_name(s, i, many_in(s, i + 2, Letters))

\* text, after the characters other than '<' were read up to j
text_run(s, i, j) ==
    IF j = i THEN PeekErr(i)
    ELSE [status |-> "CommitOk",
          out |-> Text_new(trim(SubSeq(s, i, j - 1))), pos |-> j]

\* many1(satisfy(|c| c != '<')).map(|t| Text::new(t.trim().to_string()))
text(s, i) == text_run(s, i, many_not(s, i, "<"))

\* attempt(p): an error after consuming input becomes one that consumed none
attempt(r, i) == IF r.status = "CommitErr" THEN PeekErr(i) ELSE r

\* mutant: no node is dropped
nodes_filter_keep_all(ns) == ns

\* the filter of `nodes`: drop Text nodes whose trimmed data is empty
nodes_filter(ns) ==
    SelectSeq(ns, LAMBDA n : IsText(n) => trim(n.node_type.data) # <<>>)

\* mutant: the names of the two tags are not compared
element_and_then_unchecked(open, children, close_name, pos) ==
    [status |-> "CommitOk",
     out |-> Element_new(open[1], open[2], children), pos |-> pos]

\* the closure of `element`: the names of the open and close tag must agree
element_and_then(open, children, close_name, pos) ==
    IF open[1] = close_name
    THEN [status |-> "CommitOk",
          out |-> Element_new(open[1], open[2], children), pos |-> pos]
    ELSE CommitErr(pos)

RECURSIVE many_choice(_, _, _)
RECURSIVE element(_, _)

\* attempt(many(choice((attempt(element()), attempt(text())))))
nodes_(s, i) == attempt(many_choice(s, i, <<>>), i)

\* .map(|nodes| nodes.into_iter().filter(..).collect())
nodes_map(r) == IF Ok(r) THEN [r EXCEPT !.out = nodes_filter(r.out)] ELSE r

nodes(s, i) == nodes_map(nodes_(s, i))

\* choice((e, attempt(text()))): the second is tried when the first failed
\* without consuming
choice_or(s, i, e) == IF e.status = "PeekErr" THEN attempt(text(s, i), i) ELSE e

\* choice((attempt(element()), attempt(text())))
choice(s, i) == choice_or(s, i, attempt(element(s, i), i))

\* one round of many, after the choice gave c at i: many ends with success
\* where the choice fails without consuming
many_choice_next(s, i, acc, c) ==
    IF Ok(c) THEN many_choice(s, c.pos, Append(acc, c.out))
    ELSE IF c.status = "PeekErr"
    THEN [status |-> IF acc = <<>> THEN "PeekOk" ELSE "CommitOk",
          out |-> acc, pos |-> i]
    ELSE c

\* many(choice((attempt(element()), attempt(text())))) with the nodes read
\* so far in acc
many_choice(s, i, acc) == many_choice_next(s, i, acc, choice(s, i))

\* element, after close_tag() gave c behind the children ns
element_close(o, ns, c) ==
    IF ~Ok(c) THEN CommitErr(c.pos)
    ELSE element_and_then(o.out, ns.out, c.out, c.pos)

\* element, after nodes() gave ns behind the open tag o
element_children(s, o, ns) ==
    IF ~Ok(ns) THEN CommitErr(ns.pos)
    ELSE element_close(o, ns, close_tag(s, blank(s, ns.pos)))

\* element, after open_tag() gave o
element_open(s, o) ==
    IF ~Ok(o) THEN o
    ELSE element_children(s, o, nodes(s, blank(s, o.pos)))

\* (open_tag(), blank(), nodes(), blank(), close_tag()).and_then(..)
element(s, i) == element_open(s, open_tag(s, i))

\* Result of a call that may panic
Panic == [panic |-> TRUE, value |-> <<>>]

Return(v) == [panic |-> FALSE, value |-> v]

\* .unwrap() of the parser's result; the unread rest of the input is dropped
unwrap(r) == IF Ok(r) THEN Return(r.out) ELSE Panic

\* parse_raw: nodes().parse(raw).unwrap()
parse_raw(raw) == unwrap(nodes(raw, 1))

S_html == <<"h", "t", "m", "l">>

\* mutant: the root is synthesized also around a single top-level node
parse_root_always_wrapped(r) ==
    IF r.panic THEN Panic
    ELSE Return([node_type |-> [tag |-> "Element", tag_name |-> S_html,
                                attributes |-> AttrMap_new, data |-> <<>>],
                 children |-> r.value])

\* parse, after parse_raw gave r: the only node, or an html root around all
parse_root(r) ==
    IF r.panic THEN Panic
    ELSE IF Len(r.value) = 1 THEN Return(r.value[Len(r.value)])
    ELSE Return(Element_new(S_html, AttrMap_new, r.value))

parse(raw) == parse_root(parse_raw(raw))

----------------------------------------------------------------------------
(* Markup given to the parser: a sequence of chunks, optionally padded     *)
(* with whitespace before the first chunk and after every chunk.           *)

Chunk ==
    [op |-> <<"<", "p", ">">>,
     cp |-> <<"<", "/", "p", ">">>,
     od |-> <<"<", "d", ">">>,
     cd |-> <<"<", "/", "d", ">">>,
     oa |-> <<"<", "p", " ", "i", "d", "=", "\"", "a", "\"", ">">>,
     ob |-> <<"<", "p", " ", "i", "d", "=", "\"", "b", "\"", ">">>,
     tx |-> <<"x">>,
     ut |-> <<"<", "p">>,
     na |-> <<"<", "p", " ", "i", "d", ">">>]

ChunkNames == DOMAIN Chunk

\* what each chunk is in the grammar of the markup
Kind ==
    [op |-> "open", cp |-> "close", od |-> "open", cd |-> "close",
     oa |-> "open", ob |-> "open", tx |-> "text", ut |-> "unterminated", na |-> "noquote"]

TagOf ==
    [op |-> "p", cp |-> "p", od |-> "d", cd |-> "d", oa |-> "p", ob |-> "p",
     tx |-> "", ut |-> "p", na |-> "p"]

\* the chunks of the markup given to the parser's entry points
HtmlChunks == {"op", "cp", "od", "cd", "oa", "tx", "ut", "na"}

MaxChunks == 5

Sources == UNION {[1..n -> HtmlChunks] : n \in 0..MaxChunks}

Pads == {<<>>, <<" ", "\n">>}

RECURSIVE Render(_, _)
Render(cs, ws) ==
    IF cs = <<>> THEN <<>>
    ELSE Chunk[Head(cs)] \o ws \o Render(Tail(cs), ws)

Raw == pad \o Render(src, pad)

RECURSIVE Scan(_, _)
\* Tag discipline of a chunk sequence, with the names of the open elements
\* in stack (innermost first): "ok" or the first violation
Scan(cs, stack) ==
    IF cs = <<>> THEN (IF stack = <<>> THEN "ok" ELSE "unclosed")
    ELSE LET h == Head(cs)
         IN CASE Kind[h] = "open" -> Scan(Tail(cs), <<TagOf[h]>> \o stack)
              [] Kind[h] = "close" ->
                   IF stack = <<>> THEN "stray"
                   ELSE IF Head(stack) = TagOf[h]
                        THEN Scan(Tail(cs), Tail(stack))
                        ELSE "mismatch"
              [] Kind[h] = "text" -> Scan(Tail(cs), stack)
              [] OTHER -> Kind[h]

WellFormed(cs) == Scan(cs, <<>>) = "ok"

\* the malformations the markup grammar names
Malformed(cs) == Scan(cs, <<>>) \in {"unterminated", "noquote", "mismatch"}

----------------------------------------------------------------------------
(* Calls of the parser's entry points on a given markup text *)

NoRet == [panic |-> FALSE, value |-> <<>>]

NoNode == Text_new(<<>>)

NoLast == [op |-> "none", path |-> <<>>, arg |-> <<>>, out |-> <<>>]

InitHtml ==
    /\ src \in Sources
    /\ pad \in Pads
    /\ call = "none"
    /\ ret = NoRet
    /\ dom = NoNode
    /\ last = NoLast
    /\ ops = 0
    /\ mutex = "free"
    /\ file = <<>>
    /\ handles = <<>>

CallParse ==
    /\ call = "none"
    /\ call' = "parse"
    /\ ret' = parse(Raw)
    /\ UNCHANGED <<src, pad, dom, last, ops, mutex, file, handles>>

CallParseRaw ==
    /\ call = "none"
    /\ call' = "parse_raw"
    /\ ret' = parse_raw(Raw)
    /\ UNCHANGED <<src, pad, dom, last, ops, mutex, file, handles>>

\* element().parse(raw), as the parser's unit tests call it
CallElement ==
    /\ call = "none"
    /\ call' = "element"
    /\ ret' = element(Raw, 1)
    /\ UNCHANGED <<src, pad, dom, last, ops, mutex, file, handles>>

NextHtml == CallParse \/ CallParseRaw \/ CallElement

SpecHtml == InitHtml /\ [][NextHtml]_vars

----------------------------------------------------------------------------
(* Operations of the document tree (dom.rs).  A node of the tree is named  *)
(* by its path, the child indices leading to it from the root.             *)

S_id == <<"i", "d">>

\* Element::id
id(n) ==
    IF S_id \in DOMAIN n.node_type.attributes
    THEN [some |-> TRUE, value |-> n.node_type.attributes[S_id]]
    ELSE [some |-> FALSE, value |-> <<>>]

None == [some |-> FALSE, path |-> <<>>]

Some(p) == [some |-> TRUE, path |-> p]

RECURSIVE inner_text_from(_, _)
RECURSIVE inner_text(_)
\* Node::inner_text: the data of a Text child, inner_text() of any other
inner_text(n) == inner_text_from(n.children, 1)

\* the map/join of inner_text over the children from index k on
inner_text_from(children, k) ==
    IF k > Len(children) THEN <<>>
    ELSE (IF IsText(children[k]) THEN children[k].node_type.data
          ELSE inner_text(children[k]))
         \o inner_text_from(children, k + 1)

\* mutant: the new Text node is appended to the children
set_inner_text_appending(n, t) ==
    [n EXCEPT !.children = Append(n.children, Text_new(t))]

\* Node::set_inner_text
set_inner_text(n, t) ==
    [n EXCEPT !.children =
        <<[node_type |-> [tag |-> "Text", tag_name |-> <<>>,
                          attributes |-> AttrMap_new, data |-> t],
           children |-> <<>>]>>]

\* mutant: the markup is parsed with parse, which may synthesize a root
set_inner_html_rooted(n, html) ==
    IF parse(html).panic THEN Panic
    ELSE Return([n EXCEPT !.children = <<parse(html).value>>])

\* self.children = r, when parse_raw returned
set_children(n, r) ==
    IF r.panic THEN Panic ELSE Return([n EXCEPT !.children = r.value])

\* Node::set_inner_html
set_inner_html(n, html) == set_children(n, parse_raw(html))

RECURSIVE find_map(_, _, _)
RECURSIVE get_element_by_id(_, _)

\* find_map, after the closure gave r for child k
find_map_next(children, k, x, r) ==
    IF r.some THEN Some(<<k>> \o r.path) ELSE find_map(children, k + 1, x)

\* mutant: the children are searched before the receiver is looked at
get_element_by_id_children_first(n, x) ==
    IF find_map(n.children, 1, x).some THEN find_map(n.children, 1, x)
    ELSE IF IsElement(n) /\ id(n).some /\ id(n).value = x THEN Some(<<>>)
    ELSE None

\* Node::get_element_by_id, the node found as its path from n
get_element_by_id(n, x) ==
    IF IsElement(n) /\ id(n).some /\ id(n).value = x THEN Some(<<>>)
    ELSE find_map(n.children, 1, x)

\* children.iter_mut().find_map(|child| child.get_element_by_id(id))
find_map(children, k, x) ==
    IF k > Len(children) THEN None
    ELSE find_map_next(children, k, x, get_element_by_id(children[k], x))

RECURSIVE NodeAt(_, _)
NodeAt(n, p) == IF p = <<>> THEN n ELSE NodeAt(n.children[Head(p)], Tail(p))

RECURSIVE Paths(_)
\* the paths of all nodes of the tree n
Paths(n) ==
    {<<>>} \cup UNION {{<<k>> \o q : q \in Paths(n.children[k])} :
                          k \in DOMAIN n.children}

RECURSIVE PutAt(_, _, _)
\* the tree n with the node at path p replaced by m
PutAt(n, p, m) ==
    IF p = <<>> THEN m
    ELSE [n EXCEPT !.children[Head(p)] = PutAt(@, Tail(p), m)]

----------------------------------------------------------------------------
(* The document: loaded by parsing markup, changed and read through the    *)
(* operations of Node.                                                     *)

DomChunks == {"oa", "ob", "cp", "tx"}

MaxLoadChunks == 4

MaxHtmlChunks == 3

MaxOps == 1

LoadSources == UNION {[1..n -> DomChunks] : n \in 0..MaxLoadChunks}

HtmlSources == UNION {[1..n -> DomChunks] : n \in 0..MaxHtmlChunks}

\* the texts given to set_inner_text
Texts == {<<>>, <<" ", "y", " ">>}

\* the ids looked up
Ids == {<<"a">>, <<"b">>}

Queries == {"get_element_by_id", "inner_text"}

Done(op, p, a, o) == [op |-> op, path |-> p, arg |-> a, out |-> o]

Init ==
    /\ dom = NoNode
    /\ last = NoLast
    /\ ops = 0
    /\ mutex = "free"
    /\ file = <<>>
    /\ handles = <<>>
    /\ src = <<>>
    /\ pad = <<>>
    /\ call = "none"
    /\ ret = NoRet

Loaded(r) == ~r.panic /\ dom' = r.value

\* *dom = html::parse(&html)
Load(cs) ==
    /\ last.op = "none"
    /\ Loaded(parse(Render(cs, <<>>)))
    /\ last' = Done("parse", <<>>, <<>>, <<>>)
    /\ UNCHANGED <<ops, src, pad, call, ret, mutex, file, handles>>

Replaced(p, r) == ~r.panic /\ dom' = PutAt(dom, p, r.value)

SetInnerText(p, t) ==
    /\ ops < MaxOps
    /\ last.op \notin Queries
    /\ p \in Paths(dom)
    /\ dom' = PutAt(dom, p, set_inner_text(NodeAt(dom, p), t))
    /\ last' = Done("set_inner_text", p, t, <<>>)
    /\ ops' = ops + 1
    /\ UNCHANGED <<src, pad, call, ret, mutex, file, handles>>

SetInnerHtml(p, cs) ==
    /\ ops < MaxOps
    /\ last.op \notin Queries
    /\ p \in Paths(dom)
    /\ Replaced(p, set_inner_html(NodeAt(dom, p), Render(cs, <<>>)))
    /\ last' = Done("set_inner_html", p, cs, <<>>)
    /\ ops' = ops + 1
    /\ UNCHANGED <<src, pad, call, ret, mutex, file, handles>>

GetElementById(p, x) ==
    /\ last.op \notin Queries
    /\ p \in Paths(dom)
    /\ last' = Done("get_element_by_id", p, x,
                    get_element_by_id(NodeAt(dom, p), x))
    /\ UNCHANGED <<dom, ops, src, pad, call, ret, mutex, file, handles>>

InnerText(p) ==
    /\ last.op \notin Queries
    /\ p \in Paths(dom)
    /\ last' = Done("inner_text", p, <<>>, inner_text(NodeAt(dom, p)))
    /\ UNCHANGED <<dom, ops, src, pad, call, ret, mutex, file, handles>>

Next ==
    \/ \E cs \in LoadSources : Load(cs)
    \/ \E p \in Paths(dom), t \in Texts : SetInnerText(p, t)
    \/ \E p \in Paths(dom), cs \in HtmlSources : SetInnerHtml(p, cs)
    \/ \E p \in Paths(dom), x \in Ids : GetElementById(p, x)
    \/ \E p \in Paths(dom) : InnerText(p)

Spec == Init /\ [][Next]_vars

----------------------------------------------------------------------------
(* What a chunk sequence is, read off the chunks and not the parser *)

\* number of open tags, each closed by its close tag when cs is well-formed
TagPairs(cs) == Cardinality({k \in DOMAIN cs : Kind[cs[k]] = "open"})

RECURSIVE TopNodes(_, _, _)
\* number of top-level nodes of a well-formed cs: the elements opened at
\* depth 0 and the maximal runs of text at depth 0
TopNodes(cs, depth, inText) ==
    IF cs = <<>> THEN 0
    ELSE LET h == Head(cs)
         IN CASE Kind[h] = "open" ->
                   (IF depth = 0 THEN 1 ELSE 0)
                   + TopNodes(Tail(cs), depth + 1, FALSE)
              [] Kind[h] = "close" -> TopNodes(Tail(cs), depth - 1, FALSE)
              [] Kind[h] = "text" ->
                   (IF depth = 0 /\ ~inText THEN 1 ELSE 0)
                   + TopNodes(Tail(cs), depth, TRUE)
              [] OTHER -> 0

\* number of maximal runs of text chunks, at any depth
TextRuns(cs) ==
    Cardinality({k \in DOMAIN cs :
        Kind[cs[k]] = "text" /\ (k = 1 \/ Kind[cs[k - 1]] # "text")})

\* index of the chunk that closes the element opened by the first chunk,
\* counting depth only; 0 when there is none
RECURSIVE ClosingChunk(_, _, _)
ClosingChunk(cs, k, depth) ==
    IF k > Len(cs) THEN 0
    ELSE CASE Kind[cs[k]] = "open" -> ClosingChunk(cs, k + 1, depth + 1)
           [] Kind[cs[k]] = "close" ->
                IF depth = 1 THEN k ELSE ClosingChunk(cs, k + 1, depth - 1)
           [] Kind[cs[k]] = "text" -> ClosingChunk(cs, k + 1, depth)
           [] OTHER -> 0

\* cs is an element whose close tag does not carry the open tag's name
MismatchedElement(cs) ==
    /\ cs # <<>>
    /\ Kind[cs[1]] = "open"
    /\ ClosingChunk(cs, 2, 1) = Len(cs)
    /\ TagOf[cs[Len(cs)]] # TagOf[cs[1]]

RECURSIVE ElementCount(_)
RECURSIVE ForestElementCount(_)
ElementCount(n) ==
    (IF IsElement(n) THEN 1 ELSE 0) + ForestElementCount(n.children)

ForestElementCount(ns) ==
    IF ns = <<>> THEN 0
    ELSE ElementCount(Head(ns)) + ForestElementCount(Tail(ns))

RECURSIVE NodesOf(_)
\* the set of all nodes of the forest ns
NodesOf(ns) ==
    IF ns = <<>> THEN {}
    ELSE {Head(ns)} \cup NodesOf(Head(ns).children) \cup NodesOf(Tail(ns))

RECURSIVE ForestSize(_)
ForestSize(ns) ==
    IF ns = <<>> THEN 0
    ELSE 1 + ForestSize(Head(ns).children) + ForestSize(Tail(ns))

Trimmed(t) ==
    t # <<>> /\ t[1] \notin Whitespace /\ t[Len(t)] \notin Whitespace

----------------------------------------------------------------------------
(* Claims about the markup parser, checked under SpecHtml *)

\* C1: parse and parse_raw never return a tree for malformed input
\* (unterminated tag, attribute without a quoted value, mismatched tag
\* names): the call fails.
C1_MalformedFails ==
    (call \in {"parse", "parse_raw"} /\ Malformed(src)) => ret.panic

\* C2: the element parser applied to an element whose close tag name
\* differs from its open tag name returns an error, whatever lies between
\* the two tags.
C2_MismatchIsError ==
    (call = "element" /\ MismatchedElement(src)) => ~Ok(ret)

C2_Witness ==
    /\ call = "element"
    /\ src = <<"op", "tx", "cd">>
    /\ ~Ok(ret)

\* C3: parse returns the only top-level node unchanged when there is
\* exactly one, and otherwise an Element "html" without attributes whose
\* children are all the top-level nodes in source order.
C3_SingleRoot ==
    call = "parse" =>
        LET top == parse_raw(Raw).value
        IN  /\ ~ret.panic
            /\ Len(top) = 1 => ret.value = top[1]
            /\ Len(top) # 1 => ret.value = Element_new(S_html, AttrMap_new, top)
            /\ WellFormed(src) =>
                 /\ Len(top) = TopNodes(src, 0, FALSE)
                 /\ TopNodes(src, 0, FALSE) = 1 =>
                      ret.value.node_type.tag_name # S_html
                 /\ TopNodes(src, 0, FALSE) # 1 =>
                      /\ ret.value.node_type.tag_name = S_html
                      /\ Len(ret.value.children) = TopNodes(src, 0, FALSE)

C3_Witness ==
    /\ call = "parse"
    /\ src = <<"op", "cp", "tx", "od", "cd">>
    /\ Len(ret.value.children) = 3

\* C4 as stated: for well-formed markup with N open/close tag pairs, parse
\* succeeds and the returned tree has N Element nodes.
C4_ElementCountIsPairs ==
    (call = "parse" /\ WellFormed(src)) =>
        ~ret.panic /\ ElementCount(ret.value) = TagPairs(src)

\* C4 amended: for well-formed markup with N open/close tag pairs, parse
\* succeeds and the returned tree has N Element nodes when the markup has
\* exactly one top-level node, and N + 1 (the synthesized html root)
\* otherwise.
C4_ElementCountWithRoot ==
    (call = "parse" /\ WellFormed(src)) =>
        /\ ~ret.panic
        /\ ElementCount(ret.value) =
             TagPairs(src) + (IF TopNodes(src, 0, FALSE) = 1 THEN 0 ELSE 1)

C4_Witness ==
    /\ call = "parse"
    /\ src = <<"od", "op", "cp", "cd", "tx">>
    /\ ElementCount(ret.value) = 3

\* C5: every Text node of a parsed tree, at the top level and below, has
\* non-empty data without leading or trailing whitespace, and text made of
\* whitespace only is no node at all.
C5_TextTrimmed ==
    /\ call \in {"parse", "parse_raw"} =>
          \A n \in NodesOf(IF call = "parse" THEN <<ret.value>> ELSE ret.value) :
              IsText(n) => Trimmed(n.node_type.data)
    /\ call = "parse_raw" =>
          /\ WellFormed(src) =>
                ForestSize(ret.value) = TagPairs(src) + TextRuns(src)
          /\ src = <<"od", "op", "tx", "cp", "cd">> =>
                Len(ret.value[1].children) = 1

C5_Witness ==
    /\ call = "parse_raw"
    /\ src = <<"od", "op", "tx", "cp", "cd">>
    /\ pad # <<>>
    /\ Len(ret.value) = 1
    /\ Len(ret.value[1].children) = 1

----------------------------------------------------------------------------
(* Claims about the document tree, checked under Spec *)

HasId(n, x) ==
    /\ IsElement(n)
    /\ S_id \in DOMAIN n.node_type.attributes
    /\ n.node_type.attributes[S_id] = x

\* p is q or an ancestor of q
IsPrefix(p, q) == Len(p) <= Len(q) /\ SubSeq(q, 1, Len(p)) = p

\* p comes before q in pre-order: p is an ancestor of q, or at the first
\* index where the two paths differ p goes to the child further left
Precedes(p, q) ==
    \/ IsPrefix(p, q)
    \/ \E k \in 1..Len(p) :
          /\ k <= Len(q)
          /\ SubSeq(p, 1, k - 1) = SubSeq(q, 1, k - 1)
          /\ p[k] < q[k]

RECURSIVE DescendantTextFrom(_, _)
\* the data of all Text nodes below a node with the given children, from
\* child k on, in document order
DescendantTextFrom(children, k) ==
    IF k > Len(children) THEN <<>>
    ELSE (IF IsText(children[k]) THEN children[k].node_type.data ELSE <<>>)
         \o DescendantTextFrom(children[k].children, 1)
         \o DescendantTextFrom(children, k + 1)

\* C6: in every document reachable by parse, set_inner_text and
\* set_inner_html applied to any node, a Text node has no children.
C6_TextHasNoChildren ==
    \A p \in Paths(dom) :
        IsText(NodeAt(dom, p)) => NodeAt(dom, p).children = <<>>

\* C7: get_element_by_id returns the first node in pre-order, the receiver
\* included, that is an Element with the given id, and nothing exactly
\* when the subtree has no such Element.
C7_FirstInPreOrder ==
    last.op = "get_element_by_id" =>
        LET n == NodeAt(dom, last.path)
            hits == {q \in Paths(n) : HasId(NodeAt(n, q), last.arg)}
        IN  /\ last.out.some <=> hits # {}
            /\ last.out.some =>
                 /\ last.out.path \in hits
                 /\ \A q \in hits : Precedes(last.out.path, q)

C7_Witness ==
    /\ last.op = "get_element_by_id"
    /\ last.out.some
    /\ Len(last.out.path) = 2
    /\ \E q \in Paths(NodeAt(dom, last.path)) :
          /\ Len(q) = 1
          /\ HasId(NodeAt(NodeAt(dom, last.path), q), last.arg)

\* C8: inner_text of a node is the concatenation, in document order and
\* without separators, of the data of all Text nodes below it.
C8_InnerTextIsDescendantText ==
    last.op = "inner_text" =>
        last.out = DescendantTextFrom(NodeAt(dom, last.path).children, 1)

\* C9: set_inner_text(s) leaves the node with exactly one child, a
\* childless Text node with data s untrimmed; the node's own type, name and
\* attributes and all nodes outside its subtree are unchanged, and
\* inner_text() then returns s.
C9_Step ==
    last'.op = "set_inner_text" =>
        LET p == last'.path
            t == last'.arg
            before == {q \in Paths(dom) : ~(IsPrefix(p, q) /\ q # p)}
            after == {q \in Paths(dom') : ~(IsPrefix(p, q) /\ q # p)}
        IN  /\ p \in Paths(dom')
            /\ Len(NodeAt(dom', p).children) = 1
            /\ IsText(NodeAt(dom', p).children[1])
            /\ NodeAt(dom', p).children[1].children = <<>>
            /\ NodeAt(dom', p).children[1].node_type.data = t
            /\ inner_text(NodeAt(dom', p)) = t
            /\ before = after
            /\ \A q \in before :
                  NodeAt(dom', q).node_type = NodeAt(dom, q).node_type

C9_SetInnerText == [][C9_Step]_vars

C9_Witness ==
    /\ last.op = "set_inner_text"
    /\ last.arg = <<" ", "y", " ">>
    /\ Len(last.path) = 1
    /\ Len(dom.children) = 2
    /\ NodeAt(dom, last.path).children = <<Text_new(last.arg)>>

\* C10: set_inner_html(markup) makes the node's children the top-level
\* nodes of the markup parsed as a fragment: none for none, several in
\* order for several, and never an html root around them.
C10_SetInnerHtml ==
    last.op = "set_inner_html" =>
        LET n == NodeAt(dom, last.path)
        IN  /\ n.children = parse_raw(Render(last.arg, <<>>)).value
            /\ WellFormed(last.arg) =>
                 Len(n.children) = TopNodes(last.arg, 0, FALSE)
            /\ \A k \in DOMAIN n.children :
                 n.children[k].node_type.tag_name # S_html

C10_Witness ==
    /\ last.op = "set_inner_html"
    /\ last.arg = <<"oa", "cp", "tx">>
    /\ Len(NodeAt(dom, last.path).children) = 2

----------------------------------------------------------------------------
(* Selectors and rules (css.rs) *)

UniversalSelector == [kind |-> "UniversalSelector"]

TypeSelector(tag_name) == [kind |-> "TypeSelector", tag_name |-> tag_name]

AttributeSelector(tag_name, op, attr, value) ==
    [kind |-> "AttributeSelector", tag_name |-> tag_name, op |-> op,
     attribute |-> attr, value |-> value]

ClassSelector(class_name) ==
    [kind |-> "ClassSelector", class_name |-> class_name]

\* CSSValue::Keyword
Keyword(k) == [kind |-> "Keyword", keyword |-> k]

Declaration(name, value) == [name |-> name, value |-> value]

Rule(selectors, declarations) ==
    [selectors |-> selectors, declarations |-> declarations]

\* Stylesheet::new
Stylesheet_new(rules) == [rules |-> rules]

S_class == <<"c", "l", "a", "s", "s">>

\* AttrMap::get
AttrMap_get(m, k) ==
    IF k \in DOMAIN m THEN [some |-> TRUE, value |-> m[k]]
    ELSE [some |-> FALSE, value |-> <<>>]

RECURSIVE word_end(_, _)
\* index after the longest run of non-whitespace at i
word_end(v, i) ==
    IF i <= Len(v) /\ v[i] \notin Whitespace THEN word_end(v, i + 1) ELSE i

RECURSIVE split_whitespace_from(_, _)

\* the word v[i..j-1], then the words after it
split_whitespace_rest(v, i, j) ==
    <<SubSeq(v, i, j - 1)>> \o split_whitespace_from(v, j)

\* the words of v from the non-whitespace index i on
split_whitespace_word(v, i) ==
    IF i > Len(v) THEN <<>> ELSE split_whitespace_rest(v, i, word_end(v, i))

split_whitespace_from(v, i) ==
    split_whitespace_word(v, many_in(v, i, Whitespace))

\* str::split_whitespace, collected
split_whitespace(v) == split_whitespace_from(v, 1)

\* iter().any(|v| v == value)
any_eq(ws, value) == \E k \in DOMAIN ws : ws[k] = value

\* mutant: ~= is satisfied by a value that only starts with the word
AttributeSelector_op_prefix(op, got, value) ==
    IF op = "Eq" THEN got.some /\ got.value = value
    ELSE got.some /\ Len(value) <= Len(got.value)
         /\ SubSeq(got.value, 1, Len(value)) = value

\* match op, on the result got of e.attributes.get(attribute)
AttributeSelector_op(op, got, value) ==
    IF op = "Eq" THEN got.some /\ got.value = value
    ELSE got.some /\ any_eq(split_whitespace(got.value), value)

\* SimpleSelector::matches, arm AttributeSelector
AttributeSelector_matches(sel, node) ==
    IF ~IsElement(node) THEN FALSE
    ELSE IF node.node_type.tag_name # sel.tag_name THEN FALSE
    ELSE AttributeSelector_op(sel.op,
             AttrMap_get(node.node_type.attributes, sel.attribute), sel.value)

\* mutant: the class name is looked up among the words of the attribute
ClassSelector_matches_token(sel, node) ==
    IF ~IsElement(node) THEN FALSE
    ELSE AttrMap_get(node.node_type.attributes, S_class).some
         /\ any_eq(split_whitespace(
                AttrMap_get(node.node_type.attributes, S_class).value),
                sel.class_name)

\* SimpleSelector::matches, arm ClassSelector
ClassSelector_matches(sel, node) ==
    IF ~IsElement(node) THEN FALSE
    ELSE AttrMap_get(node.node_type.attributes, S_class)
         = [some |-> TRUE, value |-> sel.class_name]

\* mutant: a class selector is compared with the tag name
SimpleSelector_matches_class_as_type(sel, node) ==
    CASE sel.kind = "UniversalSelector" -> TRUE
      [] sel.kind = "TypeSelector" ->
           IsElement(node) /\ node.node_type.tag_name = sel.tag_name
      [] sel.kind = "AttributeSelector" -> AttributeSelector_matches(sel, node)
      [] sel.kind = "ClassSelector" ->
           IsElement(node) /\ node.node_type.tag_name = sel.class_name

\* mutant: the universal selector matches Elements only
SimpleSelector_matches_universal_element(sel, node) ==
    CASE sel.kind = "UniversalSelector" -> IsElement(node)
      [] sel.kind = "TypeSelector" ->
           IsElement(node) /\ node.node_type.tag_name = sel.tag_name
      [] sel.kind = "AttributeSelector" -> AttributeSelector_matches(sel, node)
      [] sel.kind = "ClassSelector" -> ClassSelector_matches(sel, node)

\* SimpleSelector::matches
SimpleSelector_matches(sel, node) ==
    CASE sel.kind = "UniversalSelector" -> TRUE
      [] sel.kind = "TypeSelector" ->
           IsElement(node) /\ node.node_type.tag_name = sel.tag_name
      [] sel.kind = "AttributeSelector" -> AttributeSelector_matches(sel, node)
      [] sel.kind = "ClassSelector" -> ClassSelector_matches(sel, node)

\* mutant: only the selector k is asked
any_matches_first(selectors, k, node) ==
    k <= Len(selectors) /\ SimpleSelector_matches(selectors[k], node)

RECURSIVE any_matches(_, _, _)
\* selectors.iter().any(|s| s.matches(node)), from selector k on
any_matches(selectors, k, node) ==
    IF k > Len(selectors) THEN FALSE
    ELSE IF SimpleSelector_matches(selectors[k], node) THEN TRUE
    ELSE any_matches(selectors, k + 1, node)

\* mutant: every selector of the rule has to match
Rule_matches_all(rule, node) ==
    \A k \in DOMAIN rule.selectors :
        SimpleSelector_matches(rule.selectors[k], node)

\* Rule::matches
Rule_matches(rule, node) == any_matches(rule.selectors, 1, node)

----------------------------------------------------------------------------
(* Selector matching on a single node: a rule or a selector, built as the  *)
(* unit tests build them, is matched against the node held in dom.         *)

Tags == {<<"p">>, <<"d">>}

\* attribute values: one word, another word, both words
AttrValues == {<<"a">>, <<"d">>, <<"a", " ", "d">>}

\* the word attribute selectors ask for
Words == {<<"d">>}

AttrNames == {S_class, S_id}

\* the attribute maps over subsets of AttrNames
AttrMaps ==
    UNION {[ks -> AttrValues] : ks \in SUBSET AttrNames}

\* the nodes selectors are matched against
MatchNodes ==
    {Element_new(t, m, <<>>) : t \in Tags, m \in AttrMaps}
    \cup {Text_new(<<"x">>), Text_new(<<"d">>)}

SelectorSet ==
    {UniversalSelector}
    \cup {TypeSelector(t) : t \in Tags}
    \cup {AttributeSelector(t, o, a, v) :
            t \in Tags, o \in {"Eq", "Contain"}, a \in AttrNames, v \in Words}
    \cup {ClassSelector(c) : c \in AttrValues}

MaxSelectors == 2

RuleSet ==
    {Rule(ss, <<>>) :
        ss \in UNION {[1..n -> SelectorSet] : n \in 0..MaxSelectors}}

InitSelector ==
    /\ dom \in MatchNodes
    /\ last = NoLast
    /\ ops = 0
    /\ mutex = "free"
    /\ file = <<>>
    /\ handles = <<>>
    /\ src = <<>>
    /\ pad = <<>>
    /\ call = "none"
    /\ ret = NoRet

\* rule.matches(&node)
RuleMatches(rule) ==
    /\ last.op = "none"
    /\ last' = Done("Rule::matches", <<>>, rule, Rule_matches(rule, dom))
    /\ UNCHANGED <<dom, ops, src, pad, call, ret, mutex, file, handles>>

\* selector.matches(&node)
SelectorMatches(sel) ==
    /\ last.op = "none"
    /\ last' = Done("SimpleSelector::matches", <<>>, sel,
                    SimpleSelector_matches(sel, dom))
    /\ UNCHANGED <<dom, ops, src, pad, call, ret, mutex, file, handles>>

NextSelector ==
    \/ \E rule \in RuleSet : RuleMatches(rule)
    \/ \E sel \in SelectorSet : SelectorMatches(sel)

SpecSelector == InitSelector /\ [][NextSelector]_vars

\* the whitespace-separated words of v, as a set: the maximal stretches of
\* v without whitespace
WordsOf(v) ==
    {SubSeq(v, i, j) : i \in 1..Len(v), j \in 1..Len(v)} \cap
    {SubSeq(v, i, j) : <<i, j>> \in
        {ij \in (1..Len(v)) \X (1..Len(v)) :
            /\ ij[1] <= ij[2]
            /\ \A k \in ij[1]..ij[2] : v[k] \notin Whitespace
            /\ (ij[1] = 1 \/ v[ij[1] - 1] \in Whitespace)
            /\ (ij[2] = Len(v) \/ v[ij[2] + 1] \in Whitespace)}}

\* C11: Rule::matches(node) is true iff at least one selector of the rule
\* matches the node; a rule without selectors matches no node.
C11_AnySelector ==
    last.op = "Rule::matches" =>
        /\ last.out =
             (\E k \in DOMAIN last.arg.selectors :
                 SimpleSelector_matches(last.arg.selectors[k], dom))
        /\ (last.arg.selectors = <<>> => last.out = FALSE)

\* a rule of two selectors of which only the second matches
C11_Witness ==
    /\ last.op = "Rule::matches"
    /\ Len(last.arg.selectors) = 2
    /\ ~SimpleSelector_matches(last.arg.selectors[1], dom)
    /\ SimpleSelector_matches(last.arg.selectors[2], dom)
    /\ last.out = TRUE

\* C12: an attribute selector matches a node iff the node is an Element of
\* the selector's tag name and the named attribute is present and, for Eq,
\* equal to the value or, for Contain, has the value among its
\* whitespace-separated words.
C12_AttributeSelector ==
    (last.op = "SimpleSelector::matches"
     /\ last.arg.kind = "AttributeSelector") =>
        last.out =
          (/\ IsElement(dom)
           /\ dom.node_type.tag_name = last.arg.tag_name
           /\ last.arg.attribute \in DOMAIN dom.node_type.attributes
           /\ IF last.arg.op = "Eq"
              THEN dom.node_type.attributes[last.arg.attribute]
                   = last.arg.value
              ELSE last.arg.value \in
                   WordsOf(dom.node_type.attributes[last.arg.attribute]))

\* the attribute is "a d": [class~=d] matches
C12_Witness ==
    /\ last.op = "SimpleSelector::matches"
    /\ last.arg = AttributeSelector(<<"p">>, "Contain", S_class, <<"d">>)
    /\ IsElement(dom)
    /\ dom.node_type.tag_name = <<"p">>
    /\ S_class \in DOMAIN dom.node_type.attributes
    /\ dom.node_type.attributes[S_class] = <<"a", " ", "d">>
    /\ last.out = TRUE

\* the attribute is "a d": [class=d] does not match
C12_WitnessEq ==
    /\ last.op = "SimpleSelector::matches"
    /\ last.arg = AttributeSelector(<<"p">>, "Eq", S_class, <<"d">>)
    /\ IsElement(dom)
    /\ dom.node_type.tag_name = <<"p">>
    /\ S_class \in DOMAIN dom.node_type.attributes
    /\ dom.node_type.attributes[S_class] = <<"a", " ", "d">>
    /\ last.out = FALSE

\* C13: a class selector matches an Element iff the whole class attribute
\* equals the class name; not when the name is only one of its words, nor
\* when the Element has no class attribute.
C13_ClassSelector ==
    (last.op = "SimpleSelector::matches" /\ last.arg.kind = "ClassSelector"
     /\ IsElement(dom)) =>
        last.out =
          (/\ S_class \in DOMAIN dom.node_type.attributes
           /\ dom.node_type.attributes[S_class] = last.arg.class_name)

\* the class attribute is "a d" and the selector is .a
C13_Witness ==
    /\ last.op = "SimpleSelector::matches"
    /\ last.arg = ClassSelector(<<"a">>)
    /\ IsElement(dom)
    /\ S_class \in DOMAIN dom.node_type.attributes
    /\ dom.node_type.attributes[S_class] = <<"a", " ", "d">>
    /\ last.out = FALSE

----------------------------------------------------------------------------
(* Stylesheet parser (css.rs) *)

\* spaces(): skips whitespace, never fails
spaces(s, i) == many_in(s, i, Whitespace)

\* success of a parser started at i and ended before j: committed when it
\* consumed input
Parsed(i, j, out) ==
    [status |-> IF j > i THEN "CommitOk" ELSE "PeekOk", out |-> out, pos |-> j]

\* failure at j of a sequence started at i: committed when input was consumed
Fail(i, j) == IF j > i THEN CommitErr(j) ELSE PeekErr(j)

\* css_value, after the letters were read up to j
css_value_letters(s, i, j) ==
    IF j = i THEN PeekErr(i) ELSE Parsed(i, j, Keyword(SubSeq(s, i, j - 1)))

\* many1(letter()).map(|v| CSSValue::Keyword(v))
css_value(s, i) == css_value_letters(s, i, many_in(s, i, Letters))

\* declaration, after css_value() gave v behind the name that ends before j1
declaration_value(s, i, j1, v) ==
    IF ~Ok(v) THEN CommitErr(v.pos)
    ELSE Parsed(i, v.pos, Declaration(SubSeq(s, i, j1 - 1), v.out))

\* declaration, after the spaces behind the name were skipped up to j2
declaration_colon(s, i, j1, j2) ==
    IF ~At(s, j2, ":") THEN CommitErr(j2)
    ELSE declaration_value(s, i, j1, css_value(s, spaces(s, j2 + 1)))

\* declaration, after the letters of the name were read up to j1
declaration_name(s, i, j1) ==
    IF j1 = i THEN PeekErr(i)
    ELSE declaration_colon(s, i, j1, spaces(s, j1))

\* (many1(letter()), spaces(), char(':'), spaces(), css_value())
declaration(s, i) == declaration_name(s, i, many_in(s, i, Letters))

RECURSIVE declarations_from(_, _, _, _)

\* sep_end_by, at the separator looked for at j
declarations_sep(s, i0, j, acc) ==
    IF ~At(s, j, ";") THEN Parsed(i0, j, acc)
    ELSE declarations_from(s, i0, spaces(s, j + 1), acc)

\* sep_end_by, after declaration() gave d at i: the list ends with success
\* where a declaration fails without consuming
declarations_item(s, i0, i, acc, d) ==
    IF d.status = "PeekErr" THEN Parsed(i0, i, acc)
    ELSE IF d.status = "CommitErr" THEN d
    ELSE declarations_sep(s, i0, spaces(s, d.pos), Append(acc, d.out))

\* sep_end_by started at i0, at i with the declarations read so far in acc
declarations_from(s, i0, i, acc) ==
    declarations_item(s, i0, i, acc, declaration(s, i))

\* sep_end_by((declaration(), spaces()), (char(';'), spaces()))
declarations(s, i) == declarations_from(s, i, i, <<>>)

\* char('*')
universal_selector(s, i) ==
    IF At(s, i, "*") THEN Parsed(i, i + 1, UniversalSelector) ELSE PeekErr(i)

\* class_selector, after the letters of the name were read up to j
class_selector_name(s, i, j) ==
    IF ~At(s, i, ".") THEN PeekErr(i)
    ELSE IF j = i + 1 THEN CommitErr(j)
    ELSE Parsed(i, j, ClassSelector(SubSeq(s, i + 1, j - 1)))

\* (char('.'), many1(letter()))
class_selector(s, i) == class_selector_name(s, i, many_in(s, i + 1, Letters))

\* choice((string("="), string("~="))): "~" not followed by "=" fails after
\* consuming
selector_op(s, i) ==
    IF At(s, i, "=") THEN Parsed(i, i + 1, "Eq")
    ELSE IF At(s, i, "~")
    THEN (IF At(s, i + 1, "=") THEN Parsed(i, i + 2, "Contain")
          ELSE CommitErr(i + 1))
    ELSE PeekErr(i)

\* the closure of type_or_attribute_selector on Some((_, _, attribute, op,
\* value, _)); op is Ok(..) for both strings selector_op reads
type_or_attribute_selector_and_then(i, tag_name, attr, op, value, pos) ==
    Parsed(i, pos, AttributeSelector(tag_name, op, attr, value))

\* the bracket, after the letters of the value were read up to j6
attribute_selector_value(s, i, j1, j3, j4, op, j6) ==
    IF j6 = op.pos THEN CommitErr(j6)
    ELSE IF ~At(s, j6, "]") THEN CommitErr(j6)
    ELSE type_or_attribute_selector_and_then(i, SubSeq(s, i, j1 - 1),
             SubSeq(s, j3, j4 - 1), op.out,
             SubSeq(s, op.pos, j6 - 1), j6 + 1)

\* the bracket, after selector_op() gave op behind the attribute name
attribute_selector_op(s, i, j1, j3, j4, op) ==
    IF ~Ok(op) THEN CommitErr(op.pos)
    ELSE attribute_selector_value(s, i, j1, j3, j4, op,
             many_in(s, op.pos, Letters))

\* the bracket, after the letters of the attribute name were read up to j4
attribute_selector_name(s, i, j1, j3, j4) ==
    IF j4 = j3 THEN CommitErr(j4)
    ELSE attribute_selector_op(s, i, j1, j3, j4, selector_op(s, j4))

\* optional((char('['), spaces(), many1(letter()), selector_op(),
\* many1(letter()), char(']'))), looked for at j2
type_or_attribute_selector_optional(s, i, j1, j2) ==
    IF ~At(s, j2, "[")
    THEN Parsed(i, j2, TypeSelector(SubSeq(s, i, j1 - 1)))
    ELSE attribute_selector_name(s, i, j1, spaces(s, j2 + 1),
             many_in(s, spaces(s, j2 + 1), Letters))

\* type_or_attribute_selector, after the letters of the tag name were read
\* up to j1
type_or_attribute_selector_name(s, i, j1) ==
    IF j1 = i THEN PeekErr(i)
    ELSE type_or_attribute_selector_optional(s, i, j1, spaces(s, j1))

\* (many1(letter()), spaces(), optional((..))).and_then(..)
type_or_attribute_selector(s, i) ==
    type_or_attribute_selector_name(s, i, many_in(s, i, Letters))

\* choice: the next alternative is tried when r failed without consuming
simple_selector_or(r, next) == IF r.status = "PeekErr" THEN next ELSE r

\* choice((universal_selector(), class_selector(),
\* type_or_attribute_selector()))
simple_selector(s, i) ==
    simple_selector_or(universal_selector(s, i),
        simple_selector_or(class_selector(s, i),
            type_or_attribute_selector(s, i)))

RECURSIVE selectors_sep(_, _, _, _)

\* sep_by, after simple_selector() gave r behind a ','
selectors_item(s, i0, acc, r) ==
    IF ~Ok(r) THEN CommitErr(r.pos)
    ELSE selectors_sep(s, i0, spaces(s, r.pos), Append(acc, r.out))

\* sep_by, at the separator (char(','), spaces()) looked for at j
selectors_sep(s, i0, j, acc) ==
    IF ~At(s, j, ",") THEN Parsed(i0, j, acc)
    ELSE selectors_item(s, i0, acc, simple_selector(s, spaces(s, j + 1)))

\* sep_by, after simple_selector() gave r at i: no selector is a success
selectors_first(s, i, r) ==
    IF r.status = "PeekErr" THEN Parsed(i, i, <<>>)
    ELSE IF r.status = "CommitErr" THEN r
    ELSE selectors_sep(s, i, spaces(s, r.pos), <<r.out>>)

\* sep_by((simple_selector(), spaces()), (char(','), spaces()))
selectors(s, i) == selectors_first(s, i, simple_selector(s, i))

\* rule, after declarations() gave d behind the selectors sel
rule_close(s, i, sel, d, j3) ==
    IF ~At(s, j3, "}") THEN CommitErr(j3)
    ELSE Parsed(i, j3 + 1, Rule(sel.out, d.out))

\* rule, after declarations() gave d
rule_declarations(s, i, sel, d) ==
    IF ~Ok(d) THEN CommitErr(d.pos)
    ELSE rule_close(s, i, sel, d, spaces(s, d.pos))

\* rule, after the spaces behind the selectors were skipped up to j1
rule_open(s, i, sel, j1) ==
    IF ~At(s, j1, "{") THEN Fail(i, j1)
    ELSE rule_declarations(s, i, sel, declarations(s, spaces(s, j1 + 1)))

\* rule, after selectors() gave sel
rule_selectors(s, i, sel) ==
    IF ~Ok(sel) THEN sel ELSE rule_open(s, i, sel, spaces(s, sel.pos))

\* (selectors(), spaces(), char('{'), spaces(), declarations(), spaces(),
\* char('}'))
rule(s, i) == rule_selectors(s, i, selectors(s, i))

RECURSIVE rules_sep(_, _, _, _)

\* sep_by(rule(), spaces()), after the separator was skipped from p to j and
\* rule() gave r at j: a rule failing without consuming behind a separator
\* that consumed is an error, behind one that did not it ends the list
rules_item(s, i0, p, j, acc, r) ==
    IF Ok(r) THEN rules_sep(s, i0, r.pos, Append(acc, r.out))
    ELSE IF r.status = "CommitErr" THEN r
    ELSE IF j > p THEN CommitErr(j)
    ELSE Parsed(i0, p, acc)

\* sep_by(rule(), spaces()), behind a rule that ended before p
rules_sep(s, i0, p, acc) ==
    rules_item(s, i0, p, spaces(s, p), acc, rule(s, spaces(s, p)))

\* sep_by(rule(), spaces()), after rule() gave r at j0: no rule is a success
rules_first(s, i0, j0, r) ==
    IF r.status = "PeekErr" THEN Parsed(i0, j0, <<>>)
    ELSE IF r.status = "CommitErr" THEN r
    ELSE rules_sep(s, i0, r.pos, <<r.out>>)

\* the trailing spaces() of rules
rules_end(s, r) == IF Ok(r) THEN [r EXCEPT !.pos = spaces(s, r.pos)] ELSE r

\* rules, after the leading spaces were skipped up to j0
rules_start(s, i, j0) == rules_end(s, rules_first(s, i, j0, rule(s, j0)))

\* (spaces(), sep_by(rule(), spaces()), spaces())
rules(s, i) == rules_start(s, i, spaces(s, i))

\* Result::Err
Err == [is_err |-> TRUE, value |-> <<>>]

\* the Result of css::parse, after rules().parse(raw) gave r: the unread
\* rest of the input is dropped
css_parse_map(r) ==
    IF Ok(r) THEN [is_err |-> FALSE, value |-> Stylesheet_new(r.out)] ELSE Err

\* css::parse
css_parse(raw) == css_parse_map(rules(raw, 1))

----------------------------------------------------------------------------
(* Stylesheet text given to the parser: a sequence of chunks *)

CssChunk ==
    [rp |-> <<"p", "{", "a", ":", "t", "}">>,
     ra |-> <<"p", "[", "i", "=", "d", "]", ",", ".", "a", "{", "}">>,
     rw |-> <<"*", " ", ",", " ", "d", " ", "[", " ", "i", "~", "=", "d",
              "]", " ", "{", " ", "a", " ", ":", " ", "t", " ", ";", "\n",
              "x", ":", "y", ";", " ", "}">>,
     ns |-> <<"{", "}">>,
     bo |-> <<"p", "[", "i", "^", "=", "d", "]", "{", "}">>,
     bc |-> <<"p", "{", "a", " ", "t", "}">>,
     bv |-> <<"p", "{", "a", ":", "}">>,
     ws |-> <<" ">>,
     nl |-> <<"\n">>,
     sc |-> <<"}">>]

CssChunkNames == DOMAIN CssChunk

\* what each chunk is in the grammar of stylesheets: a rule, a rule without
\* selector, a rule with an unrecognized operator, a declaration without
\* ':', a declaration without value, whitespace, a stray character
CssKind ==
    [rp |-> "rule", ra |-> "rule", rw |-> "rule", ns |-> "noselector",
     bo |-> "badop", bc |-> "nocolon", bv |-> "novalue",
     ws |-> "space", nl |-> "space", sc |-> "stray"]

\* the number of selectors of each chunk that is a rule
CssSelectorCount == [rp |-> 1, ra |-> 2, rw |-> 2, ns |-> 0]

MaxCssChunks == 4

CssSources == UNION {[1..n -> CssChunkNames] : n \in 0..MaxCssChunks}

RECURSIVE CssRender(_)
CssRender(cs) ==
    IF cs = <<>> THEN <<>> ELSE CssChunk[Head(cs)] \o CssRender(Tail(cs))

CssRaw == CssRender(src)

InitCss ==
    /\ src \in CssSources
    /\ pad = <<>>
    /\ call = "none"
    /\ ret = NoRet
    /\ dom = NoNode
    /\ last = NoLast
    /\ ops = 0
    /\ mutex = "free"
    /\ file = <<>>
    /\ handles = <<>>

\* css::parse(raw)
CallCssParse ==
    /\ call = "none"
    /\ call' = "css::parse"
    /\ ret' = css_parse(CssRaw)
    /\ UNCHANGED <<src, pad, dom, last, ops, mutex, file, handles>>

\* rules().parse(raw), as the parser's unit tests call it
CallRules ==
    /\ call = "none"
    /\ call' = "rules"
    /\ ret' = rules(CssRaw, 1)
    /\ UNCHANGED <<src, pad, dom, last, ops, mutex, file, handles>>

\* rule().parse(raw), as the parser's unit tests call it
CallRule ==
    /\ call = "none"
    /\ call' = "rule"
    /\ ret' = rule(CssRaw, 1)
    /\ UNCHANGED <<src, pad, dom, last, ops, mutex, file, handles>>

NextCss == CallCssParse \/ CallRules \/ CallRule

SpecCss == InitCss /\ [][NextCss]_vars

\* the chunks the named malformations of a rule are
CssMalformed == {"badop", "nocolon", "novalue"}

\* C14: css::parse returns an error whenever any rule of the stylesheet,
\* first or later, has an unrecognized attribute-selector operator or a
\* declaration without ':' or without value.
C14_MalformedRuleFails ==
    (call = "css::parse"
     /\ \E k \in DOMAIN src : CssKind[src[k]] \in CssMalformed)
        => ret.is_err

\* C15: css::parse returns a Stylesheet only when the whole input was
\* consumed as rules and whitespace.
C15_WholeInputConsumed ==
    (call = "css::parse" /\ ~ret.is_err)
        => /\ rules(CssRaw, 1).pos = Len(CssRaw) + 1
           /\ \A k \in DOMAIN src :
                 CssKind[src[k]] \in {"rule", "noselector", "space"}

\* C16: every Rule of a returned Stylesheet has at least one selector.
C16_RuleHasSelector ==
    (call = "css::parse" /\ ~ret.is_err)
        => \A k \in DOMAIN ret.value.rules :
              Len(ret.value.rules[k].selectors) >= 1

----------------------------------------------------------------------------
(* Style resolver (style.rs): the Styled Tree of a Document Tree under a   *)
(* Stylesheet.                                                             *)

S_display == <<"d", "i", "s", "p", "l", "a", "y">>

S_block == <<"b", "l", "o", "c", "k">>

S_inline == <<"i", "n", "l", "i", "n", "e">>

S_none == <<"n", "o", "n", "e">>

\* PropertyMap::new()
PropertyMap_new == [k \in {} |-> <<>>]

\* PropertyMap::insert: a later value of the same name overwrites
PropertyMap_insert(m, name, value) ==
    [k \in DOMAIN m \cup {name} |-> IF k = name THEN value ELSE m[k]]

RECURSIVE fold_declarations(_, _, _)
\* the declarations of one rule, from declaration k on, folded into m
fold_declarations(m, decls, k) ==
    IF k > Len(decls) THEN m
    ELSE fold_declarations(
             PropertyMap_insert(m, decls[k].name, decls[k].value), decls, k + 1)

RECURSIVE fold_rules(_, _, _, _)

\* the rule k folded into m when it matches the node
fold_rule(m, rules_, k, node, matched) ==
    fold_rules(IF matched THEN fold_declarations(m, rules_[k].declarations, 1)
               ELSE m,
               rules_, k + 1, node)

\* the rules from rule k on, in stylesheet order, folded into m
fold_rules(m, rules_, k, node) ==
    IF k > Len(rules_) THEN m
    ELSE fold_rule(m, rules_, k, node, Rule_matches(rules_[k], node))

\* the Property Map of a node: no specificity, nothing inherited
resolve(node, stylesheet) ==
    fold_rules(PropertyMap_new, stylesheet.rules, 1, node)

\* the display of a node with the Property Map props: its display keyword,
\* Inline for a Text node and Block for an Element when there is none
display_of(node_type, props) ==
    IF S_display \in DOMAIN props /\ props[S_display] = Keyword(S_block)
    THEN "Block"
    ELSE IF S_display \in DOMAIN props /\ props[S_display] = Keyword(S_inline)
    THEN "Inline"
    ELSE IF S_display \in DOMAIN props /\ props[S_display] = Keyword(S_none)
    THEN "None"
    ELSE IF node_type.tag = "Text" THEN "Inline" ELSE "Block"

StyledNode(node_type, properties, children) ==
    [node_type |-> node_type, properties |-> properties,
     children |-> children]

\* StyledNode::display
display(snode) == display_of(snode.node_type, snode.properties)

Option_None == [some |-> FALSE, value |-> <<>>]

Option_Some(v) == [some |-> TRUE, value |-> v]

RECURSIVE to_styled_node(_, _)
RECURSIVE to_styled_nodes(_, _, _)

\* the styled children, after the child k gave r: a child without Styled
\* Node is left out
to_styled_nodes_next(children, k, stylesheet, r) ==
    (IF r.some THEN <<r.value>> ELSE <<>>)
    \o to_styled_nodes(children, k + 1, stylesheet)

\* the Styled Nodes of the children from child k on
to_styled_nodes(children, k, stylesheet) ==
    IF k > Len(children) THEN <<>>
    ELSE to_styled_nodes_next(children, k, stylesheet,
             to_styled_node(children[k], stylesheet))

\* mutant: a child of display none is styled like any other
to_styled_node_props_keep_none(node, stylesheet, props) ==
    Option_Some(StyledNode(node.node_type, props,
        to_styled_nodes(node.children, 1, stylesheet)))

\* to_styled_node, after the Property Map props was resolved: a node of
\* display none has no Styled Node and its children are not visited
to_styled_node_props(node, stylesheet, props) ==
    IF display_of(node.node_type, props) = "None" THEN Option_None
    ELSE Option_Some(StyledNode(node.node_type, props,
             to_styled_nodes(node.children, 1, stylesheet)))

\* to_styled_node(document_node, stylesheet) -> Option<StyledNode>
to_styled_node(node, stylesheet) ==
    to_styled_node_props(node, stylesheet, resolve(node, stylesheet))

----------------------------------------------------------------------------
(* Styling of a document: dom holds a Document Tree built from the         *)
(* constructors, and to_styled_node is called on it with a Stylesheet.     *)

S_n == <<"n">>

S_i == <<"i">>

\* <p>, <p class="i">, <d class="n">
DocLabels ==
    {[tag_name |-> <<"p">>, attributes |-> AttrMap_new],
     [tag_name |-> <<"p">>,
      attributes |-> AttrMap_from_iter(<<<<S_class, S_i>>>>)],
     [tag_name |-> <<"d">>,
      attributes |-> AttrMap_from_iter(<<<<S_class, S_n>>>>)]}

MaxDocNodes == 3

RECURSIVE DocTrees(_)
RECURSIVE DocForests(_)
\* the Document Trees of exactly n nodes
DocTrees(n) ==
    (IF n = 1 THEN {Text_new(<<"x">>)} ELSE {})
    \cup {Element_new(l.tag_name, l.attributes, f) :
            l \in DocLabels, f \in DocForests(n - 1)}

\* the sequences of Document Trees of m nodes in all
DocForests(m) ==
    IF m = 0 THEN {<<>>}
    ELSE UNION {{<<t>> \o f : t \in DocTrees(k), f \in DocForests(m - k)} :
                   k \in 1..m}

StyleDocs == UNION {DocTrees(n) : n \in 1..MaxDocNodes}

\* p {display: inline}   p {display: block}   .n {display: none}
\* .i, d {display: inline}   * {x: y; x: t}
StyleRules ==
    {Rule(<<TypeSelector(<<"p">>)>>,
          <<Declaration(S_display, Keyword(S_inline))>>),
     Rule(<<TypeSelector(<<"p">>)>>,
          <<Declaration(S_display, Keyword(S_block))>>),
     Rule(<<ClassSelector(S_n)>>,
          <<Declaration(S_display, Keyword(S_none))>>),
     Rule(<<ClassSelector(S_i), TypeSelector(<<"d">>)>>,
          <<Declaration(S_display, Keyword(S_inline))>>),
     Rule(<<UniversalSelector>>,
          <<Declaration(<<"x">>, Keyword(<<"y">>)),
            Declaration(<<"x">>, Keyword(<<"t">>))>>)}

MaxRules == 2

Stylesheets ==
    {Stylesheet_new(rs) :
        rs \in UNION {[1..n -> StyleRules] : n \in 0..MaxRules}}

InitStyle ==
    /\ dom \in StyleDocs
    /\ last = NoLast
    /\ ops = 0
    /\ mutex = "free"
    /\ file = <<>>
    /\ handles = <<>>
    /\ src = <<>>
    /\ pad = <<>>
    /\ call = "none"
    /\ ret = NoRet

\* to_styled_node(&node, &style)
ToStyledNode(stylesheet) ==
    /\ last.op = "none"
    /\ last' = Done("to_styled_node", <<>>, stylesheet,
                    to_styled_node(dom, stylesheet))
    /\ UNCHANGED <<dom, ops, src, pad, call, ret, mutex, file, handles>>

NextStyle == \E stylesheet \in Stylesheets : ToStyledNode(stylesheet)

SpecStyle == InitStyle /\ [][NextStyle]_vars

----------------------------------------------------------------------------
(* What a selector selects and what a stylesheet declares for a node, read *)
(* off the selector and the rules                                          *)

Selects(sel, n) ==
    \/ sel.kind = "UniversalSelector"
    \/ /\ sel.kind = "TypeSelector"
       /\ IsElement(n)
       /\ n.node_type.tag_name = sel.tag_name
    \/ /\ sel.kind = "AttributeSelector"
       /\ IsElement(n)
       /\ n.node_type.tag_name = sel.tag_name
       /\ sel.attribute \in DOMAIN n.node_type.attributes
       /\ IF sel.op = "Eq"
          THEN n.node_type.attributes[sel.attribute] = sel.value
          ELSE sel.value \in WordsOf(n.node_type.attributes[sel.attribute])
    \/ /\ sel.kind = "ClassSelector"
       /\ IsElement(n)
       /\ S_class \in DOMAIN n.node_type.attributes
       /\ n.node_type.attributes[S_class] = sel.class_name

RECURSIVE MatchingDeclarations(_, _)
\* the declarations of the rules rs that select n, concatenated in order
MatchingDeclarations(rs, n) ==
    IF rs = <<>> THEN <<>>
    ELSE (IF \E k \in DOMAIN Head(rs).selectors :
                Selects(Head(rs).selectors[k], n)
          THEN Head(rs).declarations ELSE <<>>)
         \o MatchingDeclarations(Tail(rs), n)

DeclaredNames(ds) == {ds[k].name : k \in DOMAIN ds}

\* the value of the last declaration of the name in ds
LastDeclared(ds, name) ==
    ds[CHOOSE k \in DOMAIN ds :
          /\ ds[k].name = name
          /\ \A j \in DOMAIN ds : ds[j].name = name => j <= k].value

\* the display a stylesheet gives a node
DisplayOf(n, sheet) ==
    IF S_display \in DeclaredNames(MatchingDeclarations(sheet.rules, n))
    THEN LastDeclared(MatchingDeclarations(sheet.rules, n), S_display).keyword
    ELSE IF IsText(n) THEN S_inline ELSE S_block

\* the nodes of n that, like all their ancestors, are not of display none
VisiblePaths(n, sheet) ==
    {p \in Paths(n) :
        \A k \in 0..Len(p) :
            DisplayOf(NodeAt(n, SubSeq(p, 1, k)), sheet) # S_none}

RECURSIVE StyledPath(_, _, _)
\* the path in the Styled Tree of the node at the visible path p of n: each
\* index counts the visible children up to it
StyledPath(n, p, sheet) ==
    IF p = <<>> THEN <<>>
    ELSE <<Cardinality({k \in 1..Head(p) :
                DisplayOf(n.children[k], sheet) # S_none})>>
         \o StyledPath(n.children[Head(p)], Tail(p), sheet)

\* C17: the Property Map of every Styled Node holds, for each name declared
\* by a rule matching its node, the value of the last such declaration in
\* stylesheet order, and nothing else.
C17_LastDeclarationWins ==
    (last.op = "to_styled_node" /\ last.out.some) =>
        \A p \in VisiblePaths(dom, last.arg) :
            /\ DOMAIN NodeAt(last.out.value,
                             StyledPath(dom, p, last.arg)).properties
               = DeclaredNames(
                     MatchingDeclarations(last.arg.rules, NodeAt(dom, p)))
            /\ \A name \in DeclaredNames(
                     MatchingDeclarations(last.arg.rules, NodeAt(dom, p))) :
                  NodeAt(last.out.value,
                         StyledPath(dom, p, last.arg)).properties[name]
                  = LastDeclared(
                        MatchingDeclarations(last.arg.rules, NodeAt(dom, p)),
                        name)

\* p {display: inline} then p {display: block} on a <p>: block
C17_Witness ==
    /\ last.op = "to_styled_node"
    /\ IsElement(dom)
    /\ dom.node_type.tag_name = <<"p">>
    /\ last.arg.rules =
         <<Rule(<<TypeSelector(<<"p">>)>>,
                <<Declaration(S_display, Keyword(S_inline))>>),
           Rule(<<TypeSelector(<<"p">>)>>,
                <<Declaration(S_display, Keyword(S_block))>>)>>
    /\ last.out.some
    /\ last.out.value.properties[S_display] = Keyword(S_block)

\* C18: a Styled Node exists for exactly the Document Nodes that, like all
\* their ancestors, do not resolve to display none, and to_styled_node
\* returns None exactly when the root resolves to display none.
C18_StyledIffVisible ==
    last.op = "to_styled_node" =>
        /\ last.out.some = (DisplayOf(dom, last.arg) # S_none)
        /\ last.out.some =>
             /\ Paths(last.out.value)
                = {StyledPath(dom, p, last.arg) :
                      p \in VisiblePaths(dom, last.arg)}
             /\ Cardinality(Paths(last.out.value))
                = Cardinality(VisiblePaths(dom, last.arg))
             /\ \A p \in VisiblePaths(dom, last.arg) :
                   NodeAt(last.out.value,
                          StyledPath(dom, p, last.arg)).node_type
                   = NodeAt(dom, p).node_type

\* <p><d class="n"><p></p></d></p> under .n {display: none}: the root alone
C18_Witness ==
    /\ last.op = "to_styled_node"
    /\ Len(dom.children) = 1
    /\ Len(dom.children[1].children) = 1
    /\ DisplayOf(dom.children[1], last.arg) = S_none
    /\ DisplayOf(dom.children[1].children[1], last.arg) # S_none
    /\ last.out.some
    /\ last.out.value.children = <<>>

----------------------------------------------------------------------------
(* Layout (layout.rs): the box tree of a Styled Tree *)

\* BoxProps::from
BoxProps_from(snode) ==
    [node_type |-> snode.node_type, properties |-> snode.properties]

BlockBox(props) == [kind |-> "BlockBox", props |-> props]

InlineBox(props) == [kind |-> "InlineBox", props |-> props]

AnonymousBox == [kind |-> "AnonymousBox", props |-> <<>>]

LayoutBox(box_type, children) ==
    [box_type |-> box_type, children |-> children]

\* LayoutBox::anonymous_block
anonymous_block == LayoutBox(AnonymousBox, <<>>)

\* mutant: an AnonymousBox is appended on every call
get_inline_container_always_new(self) ==
    IF self.box_type.kind \in {"InlineBox", "AnonymousBox"} THEN self
    ELSE [self EXCEPT !.children = Append(@, anonymous_block)]

\* LayoutBox::get_inline_container, as the box it leaves behind: a BlockBox
\* whose last child is no AnonymousBox gets one appended.  The container
\* returned is the box itself when it is an InlineBox or AnonymousBox, and
\* its last child otherwise.
get_inline_container(self) ==
    IF self.box_type.kind \in {"InlineBox", "AnonymousBox"} THEN self
    ELSE IF self.children = <<>>
            \/ self.children[Len(self.children)].box_type # AnonymousBox
    THEN [self EXCEPT !.children = Append(@, anonymous_block)]
    ELSE self

\* root.get_inline_container().children.push(child), after
\* get_inline_container left the box c behind
push_inline(c, child) ==
    IF c.box_type.kind \in {"InlineBox", "AnonymousBox"}
    THEN [c EXCEPT !.children = Append(@, child)]
    ELSE [c EXCEPT !.children[Len(c.children)].children = Append(@, child)]

\* mutant: an inline child is appended to the box itself
new_push_direct(root, child) ==
    IF child.box_type.kind = "AnonymousBox" THEN root
    ELSE [root EXCEPT !.children = Append(@, child)]

\* match child.box_type of LayoutBox::new
new_push(root, child) ==
    CASE child.box_type.kind = "BlockBox" ->
           [root EXCEPT !.children = Append(@, child)]
      [] child.box_type.kind = "InlineBox" ->
           push_inline(get_inline_container(root), child)
      [] child.box_type.kind = "AnonymousBox" -> root

\* the box LayoutBox::new starts from; Display::None is unreachable!()
new_root(snode) ==
    LayoutBox(IF display(snode) = "Inline"
              THEN InlineBox(BoxProps_from(snode))
              ELSE BlockBox(BoxProps_from(snode)),
              <<>>)

RECURSIVE LayoutBox_new(_)
RECURSIVE new_children(_, _, _)

\* the loop of LayoutBox::new, after LayoutBox::new(child) gave r for child k
new_child(root, children, k, r) ==
    IF r.panic THEN Panic
    ELSE new_children(new_push(root, r.value), children, k + 1)

\* for child in snode.children, from child k on
new_children(root, children, k) ==
    IF k > Len(children) THEN Return(root)
    ELSE new_child(root, children, k, LayoutBox_new(children[k]))

\* LayoutBox::new
LayoutBox_new(snode) ==
    IF display(snode) = "None" THEN Panic
    ELSE new_children(new_root(snode), snode.children, 1)

----------------------------------------------------------------------------
(* Layout of a Styled Tree: here dom holds the Styled Tree, built as the   *)
(* unit test of layout.rs builds it, and ret the box tree made of it.      *)

\* NodeType::Element(Element { tag_name: "div", attributes: [] })
DivType ==
    [tag |-> "Element", tag_name |-> <<"d", "i", "v">>,
     attributes |-> AttrMap_new, data |-> <<>>]

\* the property maps `block` and `inline` of the unit test
StyledProperties ==
    {PropertyMap_insert(PropertyMap_new, S_display, Keyword(S_block)),
     PropertyMap_insert(PropertyMap_new, S_display, Keyword(S_inline))}

MaxStyledNodes == 6

RECURSIVE StyledTrees(_)
RECURSIVE StyledForests(_)
\* the Styled Trees of exactly n nodes
StyledTrees(n) ==
    {StyledNode(DivType, pr, f) :
        pr \in StyledProperties, f \in StyledForests(n - 1)}

\* the sequences of Styled Trees of m nodes in all
StyledForests(m) ==
    IF m = 0 THEN {<<>>}
    ELSE UNION {{<<t>> \o f : t \in StyledTrees(k),
                              f \in StyledForests(m - k)} : k \in 1..m}

InitLayout ==
    /\ dom \in UNION {StyledTrees(n) : n \in 1..MaxStyledNodes}
    /\ call = "none"
    /\ ret = NoRet
    /\ last = NoLast
    /\ ops = 0
    /\ mutex = "free"
    /\ file = <<>>
    /\ handles = <<>>
    /\ src = <<>>
    /\ pad = <<>>

\* LayoutBox::new(styled_node)
CallLayoutBoxNew ==
    /\ call = "none"
    /\ call' = "LayoutBox::new"
    /\ ret' = LayoutBox_new(dom)
    /\ UNCHANGED <<src, pad, dom, last, ops, mutex, file, handles>>

NextLayout == CallLayoutBoxNew

SpecLayout == InitLayout /\ [][NextLayout]_vars

RECURSIVE InlineRun(_)
\* the length of the longest run of InlineBoxes at the head of boxes
InlineRun(boxes) ==
    IF boxes # <<>> /\ Head(boxes).box_type.kind = "InlineBox"
    THEN 1 + InlineRun(Tail(boxes)) ELSE 0

RECURSIVE Grouped(_)
\* boxes with every maximal run of InlineBoxes put into one AnonymousBox
Grouped(boxes) ==
    IF boxes = <<>> THEN <<>>
    ELSE IF InlineRun(boxes) = 0
    THEN <<Head(boxes)>> \o Grouped(Tail(boxes))
    ELSE <<LayoutBox(AnonymousBox, SubSeq(boxes, 1, InlineRun(boxes)))>>
         \o Grouped(SubSeq(boxes, InlineRun(boxes) + 1, Len(boxes)))

\* the boxes of the children of the styled node, each built on its own
ChildBoxes(snode) ==
    [k \in DOMAIN snode.children |-> LayoutBox_new(snode.children[k]).value]

\* C19: the children of the box of a Block styled node are the boxes of its
\* children in order, every Block child directly and every maximal run of
\* Inline children inside one AnonymousBox.
C19_InlineRunsWrapped ==
    (call = "LayoutBox::new" /\ display(dom) = "Block") =>
        /\ ~ret.panic
        /\ ret.value.box_type = BlockBox(BoxProps_from(dom))
        /\ ret.value.children = Grouped(ChildBoxes(dom))

\* children [Block, Inline, Inline, Block]: Block, Anonymous{Inline, Inline},
\* Block
C19_Witness ==
    /\ call = "LayoutBox::new"
    /\ display(dom) = "Block"
    /\ Len(dom.children) = 4
    /\ [k \in 1..4 |-> display(dom.children[k])]
       = <<"Block", "Inline", "Inline", "Block">>
    /\ Len(ret.value.children) = 3
    /\ [k \in 1..3 |-> ret.value.children[k].box_type.kind]
       = <<"BlockBox", "AnonymousBox", "BlockBox">>
    /\ [k \in 1..2 |-> ret.value.children[2].children[k].box_type.kind]
       = <<"InlineBox", "InlineBox">>

\* C20: in the box tree, no InlineBox is a direct child of a BlockBox, no two
\* AnonymousBoxes are adjacent siblings, and every AnonymousBox is a child of
\* a BlockBox and has children, all of them InlineBoxes.
C20_BoxTreeShape ==
    call = "LayoutBox::new" =>
        /\ ~ret.panic
        /\ ret.value.box_type.kind # "AnonymousBox"
        /\ \A p \in Paths(ret.value) :
              /\ NodeAt(ret.value, p).box_type.kind = "BlockBox" =>
                    \A k \in DOMAIN NodeAt(ret.value, p).children :
                        NodeAt(ret.value, p).children[k].box_type.kind
                        \in {"BlockBox", "AnonymousBox"}
              /\ \A k \in DOMAIN NodeAt(ret.value, p).children :
                    (k > 1
                     /\ NodeAt(ret.value, p).children[k].box_type.kind
                        = "AnonymousBox")
                    => NodeAt(ret.value, p).children[k - 1].box_type.kind
                       # "AnonymousBox"
              /\ \A k \in DOMAIN NodeAt(ret.value, p).children :
                    NodeAt(ret.value, p).children[k].box_type.kind
                    = "AnonymousBox"
                    => /\ NodeAt(ret.value, p).box_type.kind = "BlockBox"
                       /\ NodeAt(ret.value, p).children[k].children # <<>>
                       /\ \A j \in DOMAIN
                              NodeAt(ret.value, p).children[k].children :
                             NodeAt(ret.value, p).children[k].children[j]
                                 .box_type.kind = "InlineBox"

\* a BlockBox below the root whose children are an AnonymousBox of two
\* InlineBoxes and a BlockBox
C20_Witness ==
    /\ call = "LayoutBox::new"
    /\ ~ret.panic
    /\ \E p \in Paths(ret.value) :
          /\ p # <<>>
          /\ NodeAt(ret.value, p).box_type.kind = "BlockBox"
          /\ Len(NodeAt(ret.value, p).children) = 2
          /\ NodeAt(ret.value, p).children[1].box_type.kind = "AnonymousBox"
          /\ Len(NodeAt(ret.value, p).children[1].children) = 2
          /\ NodeAt(ret.value, p).children[2].box_type.kind = "BlockBox"

\* C21: in every box tree built by LayoutBox::new, an InlineBox never has a
\* BlockBox as a direct child, whatever the Styled Tree.
C21_NoBlockInInline ==
    (call = "LayoutBox::new" /\ ~ret.panic) =>
        \A p \in Paths(ret.value) :
            NodeAt(ret.value, p).box_type.kind = "InlineBox" =>
                \A k \in DOMAIN NodeAt(ret.value, p).children :
                    NodeAt(ret.value, p).children[k].box_type.kind
                    # "BlockBox"

----------------------------------------------------------------------------
(* The pipeline of main.rs: run(html, css) parses the markup and the       *)
(* stylesheet, styles the tree and lays it out. Here src holds the chunks  *)
(* of the markup and pad those of the stylesheet.                          *)

\* Err(anyhow!("Failed to style node"))
Err_FailedToStyle == [is_err |-> TRUE, value |-> "Failed to style node"]

\* Ok(()), with the box tree run wrote to ./tree.txt (painted on wasm32)
run_Ok(layout_box) == [is_err |-> FALSE, value |-> layout_box]

\* run, after LayoutBox::new(styled_node) gave r
run_layout_box(r) == IF r.panic THEN Panic ELSE Return(run_Ok(r.value))

\* run, after to_styled_node(&node, &style) gave styled
run_styled_node(styled) ==
    IF ~styled.some THEN Return(Err_FailedToStyle)
    ELSE run_layout_box(LayoutBox_new(styled.value))

\* run, after css::parse(css) gave style: `?` returns its error
run_style(node, style) ==
    IF style.is_err THEN Return(Err)
    ELSE run_styled_node(to_styled_node(node, style.value))

\* run, after html::parse(html) gave node
run_node(node, css) ==
    IF node.panic THEN Panic ELSE run_style(node.value, css_parse(css))

\* run(html, css) -> Result<()>
run(html, css) == run_node(parse(html), css)

\* <p>   <p class="n">   </p>   x
RunHtmlChunk ==
    [op |-> <<"<", "p", ">">>,
     on |-> <<"<", "p", " ", "c", "l", "a", "s", "s", "=", "\"", "n",
         "\"", ">">>,
     cp |-> <<"<", "/", "p", ">">>,
     tx |-> <<"x">>]

\* p{display:none}   .n{display:none}   p{display:inline}   *{display:x}
RunCssChunk ==
    [dn |-> <<"p", "{", "d", "i", "s", "p", "l", "a", "y", ":", "n", "o",
         "n", "e", "}">>,
     cn |-> <<".", "n", "{", "d", "i", "s", "p", "l", "a", "y", ":", "n",
         "o", "n", "e", "}">>,
     di |-> <<"p", "{", "d", "i", "s", "p", "l", "a", "y", ":", "i", "n",
         "l", "i", "n", "e", "}">>,
     dx |-> <<"*", "{", "d", "i", "s", "p", "l", "a", "y", ":", "x", "}">>]

MaxRunHtmlChunks == 3

MaxRunCssChunks == 2

RECURSIVE RunRender(_, _)
RunRender(chunk, cs) ==
    IF cs = <<>> THEN <<>> ELSE chunk[Head(cs)] \o RunRender(chunk, Tail(cs))

RunHtml == RunRender(RunHtmlChunk, src)

RunCss == RunRender(RunCssChunk, pad)

InitRun ==
    /\ src \in UNION {[1..n -> DOMAIN RunHtmlChunk] : n \in 0..MaxRunHtmlChunks}
    /\ pad \in UNION {[1..n -> DOMAIN RunCssChunk] : n \in 0..MaxRunCssChunks}
    /\ call = "none"
    /\ ret = NoRet
    /\ dom = NoNode
    /\ last = NoLast
    /\ ops = 0
    /\ mutex = "free"
    /\ file = <<>>
    /\ handles = <<>>

\* run(html, css)
CallRun ==
    /\ call = "none"
    /\ call' = "run"
    /\ ret' = run(RunHtml, RunCss)
    /\ UNCHANGED <<src, pad, dom, last, ops, mutex, file, handles>>

NextRun == CallRun

SpecRun == InitRun /\ [][NextRun]_vars

C23_NoneIsNotAnError ==
    (/\ call = "run"
     /\ ~parse(RunHtml).panic
     /\ ~css_parse(RunCss).is_err
     /\ DisplayOf(parse(RunHtml).value, css_parse(RunCss).value) = S_none)
    => (~ret.panic /\ ~ret.value.is_err)

\* C26: a Text node is matched by a selector exactly when the selector is
\* the universal selector.
C26_TextMatchedByUniversalOnly ==
    (last.op = "SimpleSelector::matches" /\ IsText(dom)) =>
        (last.out <=> last.arg = UniversalSelector)

\* the Text node asked with the universal selector and with a type selector
C26_Witness ==
    /\ last.op = "SimpleSelector::matches"
    /\ IsText(dom)
    /\ last.arg = UniversalSelector
    /\ last.out

C26_WitnessType ==
    /\ last.op = "SimpleSelector::matches"
    /\ IsText(dom)
    /\ last.arg.kind = "TypeSelector"
    /\ ~last.out

RECURSIVE CssTrimStart(_)
\* the chunks without the whitespace chunks at their head
CssTrimStart(cs) ==
    IF cs # <<>> /\ CssKind[Head(cs)] = "space" THEN CssTrimStart(Tail(cs))
    ELSE cs

RECURSIVE CssTrimEnd(_)
\* the chunks without the whitespace chunks at their end
CssTrimEnd(cs) ==
    IF cs # <<>> /\ CssKind[cs[Len(cs)]] = "space"
    THEN CssTrimEnd(SubSeq(cs, 1, Len(cs) - 1))
    ELSE cs

\* C27: a stylesheet text that css::parse accepts is accepted with the same
\* rule list when whitespace or newlines are added before its first rule or
\* after its last rule.
C27_SurroundingWhitespaceIgnored ==
    (call = "css::parse"
     /\ ~css_parse(CssRender(CssTrimEnd(CssTrimStart(src)))).is_err)
    => ret = css_parse(CssRender(CssTrimEnd(CssTrimStart(src))))

----------------------------------------------------------------------------
(* The script engine on the global DOM (engine/src/lib.rs, element.rs,     *)
(* document.rs, runtime.rs) and the renderer that shares it                *)
(* (renderer/src/lib.rs). dom is the tree inside the static DOM and mutex  *)
(* tells whether its Mutex is locked.                                      *)

\* DOM: Lazy<Mutex<Box<Node>>>, a Text node without data
DOM == [node_type |-> [tag |-> "Text", tag_name |-> <<>>,
                       attributes |-> AttrMap_new, data |-> <<>>],
        children |-> <<>>]

JsNull == [type |-> "Null", value |-> <<>>]

JsString(s) == [type |-> "String", value |-> s]

JsNumber(n) == [type |-> "Number", value |-> n]

\* a JsObject whose native data is Element { id }
JsElement(x) == [type |-> "Element", value |-> x]

JsOk(v) == [is_err |-> FALSE, value |-> v]

\* JsError::from_native(JsNativeError::typ().with_message(message))
JsTypeError(message) ==
    [is_err |-> TRUE, value |-> [kind |-> "TypeError", message |-> message]]

S_invalid_this ==
    <<"g", "e", "t", " ", "E", "l", "e", "m", "e", "n", "t", ".", "t", "a",
      "g", "N", "a", "m", "e", " ", "c", "a", "l", "l", "e", "d", " ", "w",
      "i", "t", "h", " ", "i", "n", "v", "a", "l", "i", "d", " ", "v", "a",
      "l", "u", "e">>

S_not_found == <<" ", "n", "o", "t", " ", "f", "o", "u", "n", "d">>

S_is_not_an_element ==
    <<" ", "i", "s", " ", "n", "o", "t", " ", "a", "n", " ", "e", "l", "e",
      "m", "e", "n", "t">>

\* Element::get_id: the id of the Element behind `this`
get_id(this) ==
    IF this.type = "Element" THEN JsOk(this.value)
    ELSE JsTypeError(S_invalid_this)

\* the outcome of an accessor: a panic, or the JsResult it returns and the
\* tree it leaves in DOM
Aborted(tree) == [panic |-> TRUE, value |-> <<>>, dom |-> tree]

Returned(v, tree) == [panic |-> FALSE, value |-> v, dom |-> tree]

\* get_tag_name, after dom.get_element_by_id(&id) gave found
get_tag_name_found(tree, x, found) ==
    IF ~found.some THEN Returned(JsTypeError(x \o S_not_found), tree)
    ELSE IF ~IsElement(NodeAt(tree, found.path))
    THEN Returned(JsTypeError(x \o S_is_not_an_element), tree)
    ELSE Returned(
             JsOk(JsString(NodeAt(tree, found.path).node_type.tag_name)),
             tree)

\* get_tag_name, after get_id(this) gave r: DOM.try_lock().unwrap() panics
\* when the Mutex is locked
get_tag_name_id(tree, locked, r) ==
    IF r.is_err THEN Returned(r, tree)
    ELSE IF locked THEN Aborted(tree)
    ELSE get_tag_name_found(tree, r.value, get_element_by_id(tree, r.value))

\* Element::get_tag_name
get_tag_name(this, tree, locked) ==
    get_tag_name_id(tree, locked, get_id(this))

\* get_inner_text, after dom.get_element_by_id(&id) gave found
get_inner_text_found(tree, x, found) ==
    IF ~found.some THEN Returned(JsTypeError(x \o S_not_found), tree)
    ELSE Returned(JsOk(JsString(inner_text(NodeAt(tree, found.path)))), tree)

\* get_inner_text, after get_id(this) gave r
get_inner_text_id(tree, locked, r) ==
    IF r.is_err THEN Returned(r, tree)
    ELSE IF locked THEN Aborted(tree)
    ELSE get_inner_text_found(tree, r.value,
                              get_element_by_id(tree, r.value))

\* Element::get_inner_text
get_inner_text(this, tree, locked) ==
    get_inner_text_id(tree, locked, get_id(this))

\* set_inner_text, after dom.get_element_by_id(&id) gave found
set_inner_text_found(tree, x, found, t) ==
    IF ~found.some THEN Returned(JsTypeError(x \o S_not_found), tree)
    ELSE Returned(JsOk(JsString(t)),
                  PutAt(tree, found.path,
                        set_inner_text(NodeAt(tree, found.path), t)))

\* set_inner_text, after get_id(this) gave r
set_inner_text_id(tree, locked, r, t) ==
    IF r.is_err THEN Returned(r, tree)
    ELSE IF locked THEN Aborted(tree)
    ELSE set_inner_text_found(tree, r.value,
                              get_element_by_id(tree, r.value), t)

\* Element::set_inner_text: args[0].as_string().unwrap() comes first and
\* panics when there is no argument or it is not a string
Element_set_inner_text(this, args, tree, locked) ==
    IF args = <<>> \/ args[1].type # "String" THEN Aborted(tree)
    ELSE set_inner_text_id(tree, locked, get_id(this), args[1].value)

\* Document::get_element_by_id: the lookup is commented out
Document_get_element_by_id(args) == JsOk(JsNull)

S_result == <<"r", "e", "s", "u", "l", "t">>

S_fuga == <<"f", "u", "g", "a">>

S_null_property ==
    <<"c", "a", "n", "n", "o", "t", " ", "s", "e", "t", " ", "p", "r", "o",
      "p", "e", "r", "t", "y", " ", "o", "f", " ", "n", "u", "l", "l">>

\* the statement `target.innerText = value;` of a script: a property of null
\* cannot be set, an Element has the accessor
assign_innerText(target, value, tree, locked) ==
    IF target.type = "Null" THEN Returned(JsTypeError(S_null_property), tree)
    ELSE IF target.type = "Element"
    THEN Element_set_inner_text(target, <<value>>, tree, locked)
    ELSE Returned(JsOk(value), tree)

\* Runtime::execute of the source of exec_js, whose first statement is
\* document.getElementById("result").innerText = "fuga": an uncaught error
\* ends the script
execute_source(tree, locked) ==
    assign_innerText(
        Document_get_element_by_id(<<JsString(S_result)>>).value,
        JsString(S_fuga), tree, locked)

\* the markup and the stylesheet that run() of the renderer parses
RunHtmlText ==
    <<" ", " ", " ", " ", "\n", "<", "b", "o", "d", "y", ">", "\n", " ", " ",
      " ", " ", "<", "p", ">", "h", "e", "l", "l", "o", "<", "/", "p", ">",
      "\n", " ", " ", " ", " ", "<", "p", " ", "c", "l", "a", "s", "s", "=",
      "\"", "i", "n", "l", "i", "n", "e", "\"", ">", "w", "o", "r", "l", "d",
      "<", "/", "p", ">", "\n", " ", " ", " ", " ", "<", "p", " ", "c", "l",
      "a", "s", "s", "=", "\"", "i", "n", "l", "i", "n", "e", "\"", ">", ":",
      ")", "<", "/", "p", ">", "\n", " ", " ", " ", " ", "<", "p", ">", "t",
      "h", "i", "s", "<", "/", "p", ">", "\n", " ", " ", " ", " ", "<", "p",
      " ", "c", "l", "a", "s", "s", "=", "\"", "i", "n", "l", "i", "n", "e",
      "\"", ">", "i", "s", "<", "/", "p", ">", "\n", " ", " ", " ", " ", "<",
      "p", " ", "c", "l", "a", "s", "s", "=", "\"", "i", "n", "l", "i", "n",
      "e", "\"", ">", "i", "n", "l", "i", "n", "e", "<", "/", "p", ">", "\n",
      " ", " ", " ", " ", "<", "d", "i", "v", " ", "c", "l", "a", "s", "s",
      "=", "\"", "n", "o", "n", "e", "\"", ">", "\n", " ", " ", " ", " ",
      " ", " ", " ", " ", "<", "p", ">", "t", "h", "i", "s", " ", "s", "h",
      "o", "u", "l", "d", " ", "n", "o", "t", " ", "b", "e", " ", "s", "h",
      "o", "w", "n", "<", "/", "p", ">", "\n", " ", " ", " ", " ", "<", "/",
      "d", "i", "v", ">", "\n", " ", " ", " ", " ", "<", "s", "p", "a", "n",
      " ", "i", "d", "=", "\"", "r", "e", "s", "u", "l", "t", "\"", ">", "h",
      "o", "g", "e", "<", "/", "s", "p", "a", "n", ">", "\n", "<", "/", "b",
      "o", "d", "y", ">", "\n", " ", " ", " ", " ">>

RunCssText ==
    <<"\n", "s", "c", "r", "i", "p", "t", " ", "{", "\n", " ", " ", " ", " ",
      "d", "i", "s", "p", "l", "a", "y", ":", " ", "n", "o", "n", "e", ";",
      "\n", "}", "\n", "p", ",", " ", "d", "i", "v", " ", "{", "\n", " ",
      " ", " ", " ", "d", "i", "s", "p", "l", "a", "y", ":", " ", "b", "l",
      "o", "c", "k", ";", "\n", "}", "\n", " ", " ", " ", " ", ".", "n", "o",
      "n", "e", " ", "{", "\n", " ", " ", " ", " ", " ", " ", " ", " ", " ",
      " ", " ", " ", "d", "i", "s", "p", "l", "a", "y", ":", " ", "n", "o",
      "n", "e", ";", "\n", " ", " ", " ", " ", " ", " ", " ", " ", "}", "\n",
      " ", " ", " ", " ", " ", " ", " ", " ", ".", "i", "n", "l", "i", "n",
      "e", " ", "{", "\n", " ", " ", " ", " ", " ", " ", " ", " ", " ", " ",
      " ", " ", "d", "i", "s", "p", "l", "a", "y", ":", " ", "i", "n", "l",
      "i", "n", "e", ";", "\n", " ", " ", " ", " ", " ", " ", " ", " ", "}">>

\* run() from css::parse(css) on, with the tree left in DOM: the box tree
\* handed to paint, or the error
renderer_run_paint(tree) == run_style(tree, css_parse(RunCssText))

----------------------------------------------------------------------------
(* The renderer and scripts on the global DOM. A render locks DOM from its *)
(* line 28 until run() returns, so a render in progress is the state       *)
(* mutex = "locked"; the accessors are called with it from another thread. *)

\* what a script can have for `this`: an Element made by `new Element()`,
\* whose id is "" (data_constructor), or a value that is no Element
EngineThis == {JsElement(<<>>), JsNull}

EngineArgs ==
    {<<>>, <<JsString(S_fuga)>>, <<JsString(<<>>)>>, <<JsNumber(<<"5">>)>>}

MaxEngineOps == 4

InitEngine ==
    /\ dom = DOM
    /\ mutex = "free"
    /\ call = "none"
    /\ ret = NoRet
    /\ last = NoLast
    /\ ops = 0
    /\ src = <<>>
    /\ pad = <<>>
    /\ file = <<>>
    /\ handles = <<>>

\* the call op(this, args) came to the outcome r
Accessed(op, this, args, r) ==
    /\ ops < MaxEngineOps
    /\ ops' = ops + 1
    /\ call' = op
    /\ last' = Done(op, <<>>, [this |-> this, args |-> args], <<>>)
    /\ ret' = [panic |-> r.panic, value |-> r.value]
    /\ dom' = r.dom
    /\ UNCHANGED <<src, pad, mutex, file, handles>>

\* a script reads this.tagName
GetTagName(this) ==
    Accessed("get_tag_name", this, <<>>,
             get_tag_name(this, dom, mutex = "locked"))

\* a script reads this.innerText
GetInnerText(this) ==
    Accessed("get_inner_text", this, <<>>,
             get_inner_text(this, dom, mutex = "locked"))

\* a script assigns this.innerText, or calls the setter with args
SetInnerTextOf(this, args) ==
    Accessed("set_inner_text", this, args,
             Element_set_inner_text(this, args, dom, mutex = "locked"))

\* exec_js(): the result of the script is logged and Ok(()) returned
ExecJs ==
    Accessed("exec_js", JsNull, <<>>,
             execute_source(dom, mutex = "locked"))

\* run() up to line 29: DOM.try_lock().unwrap(), then the markup is parsed
\* into DOM
RenderLock ==
    /\ ops < MaxEngineOps
    /\ ops' = ops + 1
    /\ call' = "run"
    /\ last' = Done("run", <<>>, <<>>, <<>>)
    /\ IF mutex = "locked"
       THEN /\ ret' = Panic
            /\ UNCHANGED <<dom, mutex>>
       ELSE /\ ret' = NoRet
            /\ mutex' = "locked"
            /\ dom' = parse(RunHtmlText).value
    /\ UNCHANGED <<src, pad, file, handles>>

\* run() from line 30 to its return, and render() around it: the tree of DOM
\* is styled, laid out and painted, and the guard is dropped
RenderPaint ==
    /\ mutex = "locked"
    /\ mutex' = "free"
    /\ call' = "render"
    /\ last' = Done("render", <<>>, <<>>, <<>>)
    /\ ret' = renderer_run_paint(dom)
    /\ UNCHANGED <<src, pad, dom, ops, file, handles>>

NextEngine ==
    \/ \E this \in EngineThis : GetTagName(this)
    \/ \E this \in EngineThis : GetInnerText(this)
    \/ \E this \in EngineThis, args \in EngineArgs :
          SetInnerTextOf(this, args)
    \/ ExecJs
    \/ RenderLock
    \/ RenderPaint

SpecEngine == InitEngine /\ [][NextEngine]_vars

\* the Element of the given id that Node::get_element_by_id is to find
HasElementOfId(tree, x) ==
    \E p \in Paths(tree) :
        /\ IsElement(NodeAt(tree, p))
        /\ S_id \in DOMAIN NodeAt(tree, p).node_type.attributes
        /\ NodeAt(tree, p).node_type.attributes[S_id] = x

ElementAccessors == {"get_tag_name", "get_inner_text", "set_inner_text"}

\* C25: the render that follows exec_js, whose script sets the innerText of
\* the element of id result to fuga, styles and paints a tree in which that
\* element has the text fuga.
C25_MutationPainted ==
    [][(/\ call = "exec_js"
        /\ HasElementOfId(dom, S_result)
        /\ mutex = "free"
        /\ call' = "run"
        /\ mutex' = "locked")
       => (/\ HasElementOfId(dom', S_result)
           /\ inner_text(NodeAt(dom', get_element_by_id(dom', S_result).path))
              = S_fuga)]_vars

\* C28: every invocation of an Element accessor returns a JS value or a JS
\* error, also while the DOM mutex is locked; none panics.
C28_AccessorsReturn ==
    call \in ElementAccessors => ~ret.panic

\* C29: an accessor called on an Element whose id no Element of the tree in
\* DOM has returns the type error "<id> not found" and leaves the tree as
\* it was.
C29_NotFoundIsTypeError ==
    [][(/\ call' \in ElementAccessors
        /\ ops' = ops + 1
        /\ last'.arg.this.type = "Element"
        /\ ~HasElementOfId(dom, last'.arg.this.value))
       => (/\ ret' = Return(JsTypeError(last'.arg.this.value \o S_not_found))
           /\ dom' = dom)]_vars

----------------------------------------------------------------------------
(* The binary form of a tree (dom.rs write_as_bin, read back by fetch_dom  *)
(* of the renderer): bincode with fixed-width little-endian integers, a    *)
(* byte being a number of 0..255.                                          *)

\* the bytes of the characters of the model
Code ==
    "\n" :> 10 @@ " " :> 32 @@ "!" :> 33 @@ "\"" :> 34 @@ "#" :> 35 @@
    "$" :> 36 @@ "%" :> 37 @@ "&" :> 38 @@ "'" :> 39 @@ "(" :> 40 @@
    ")" :> 41 @@ "*" :> 42 @@ "+" :> 43 @@ "," :> 44 @@ "-" :> 45 @@
    "." :> 46 @@ "/" :> 47 @@ "0" :> 48 @@ "1" :> 49 @@ "2" :> 50 @@
    "3" :> 51 @@ "4" :> 52 @@ "5" :> 53 @@ "6" :> 54 @@ "7" :> 55 @@
    "8" :> 56 @@ "9" :> 57 @@ ":" :> 58 @@ ";" :> 59 @@ "<" :> 60 @@
    "=" :> 61 @@ ">" :> 62 @@ "?" :> 63 @@ "@" :> 64 @@ "A" :> 65 @@
    "B" :> 66 @@ "C" :> 67 @@ "D" :> 68 @@ "E" :> 69 @@ "F" :> 70 @@
    "G" :> 71 @@ "H" :> 72 @@ "I" :> 73 @@ "J" :> 74 @@ "K" :> 75 @@
    "L" :> 76 @@ "M" :> 77 @@ "N" :> 78 @@ "O" :> 79 @@ "P" :> 80 @@
    "Q" :> 81 @@ "R" :> 82 @@ "S" :> 83 @@ "T" :> 84 @@ "U" :> 85 @@
    "V" :> 86 @@ "W" :> 87 @@ "X" :> 88 @@ "Y" :> 89 @@ "Z" :> 90 @@
    "[" :> 91 @@ "\\" :> 92 @@ "]" :> 93 @@ "^" :> 94 @@ "_" :> 95 @@
    "a" :> 97 @@ "b" :> 98 @@ "c" :> 99 @@ "d" :> 100 @@ "e" :> 101 @@
    "f" :> 102 @@ "g" :> 103 @@ "h" :> 104 @@ "i" :> 105 @@ "j" :> 106 @@
    "k" :> 107 @@ "l" :> 108 @@ "m" :> 109 @@ "n" :> 110 @@ "o" :> 111 @@
    "p" :> 112 @@ "q" :> 113 @@ "r" :> 114 @@ "s" :> 115 @@ "t" :> 116 @@
    "u" :> 117 @@ "v" :> 118 @@ "w" :> 119 @@ "x" :> 120 @@ "y" :> 121 @@
    "z" :> 122 @@ "{" :> 123 @@ "|" :> 124 @@ "}" :> 125 @@ "~" :> 126

\* the character of a byte of a string; a byte of no character here is "?"
CharOf(b) ==
    IF \E c \in DOMAIN Code : Code[c] = b
    THEN CHOOSE c \in DOMAIN Code : Code[c] = b
    ELSE "?"

RECURSIVE fixint(_, _)
\* the w little-endian bytes of n
fixint(n, w) ==
    IF w = 0 THEN <<>> ELSE <<n % 256>> \o fixint(n \div 256, w - 1)

\* String: its length as u64, then its bytes
serialize_str(s) == fixint(Len(s), 8) \o [k \in DOMAIN s |-> Code[s[k]]]

RECURSIVE serialize_entries(_, _)
\* the entries of the map m whose keys are in keys, in any order: a HashMap
\* is iterated in no fixed order
serialize_entries(m, keys) ==
    IF keys = {} THEN {<<>>}
    ELSE UNION {{serialize_str(k) \o serialize_str(m[k]) \o rest :
                    rest \in serialize_entries(m, keys \ {k})} : k \in keys}

\* AttrMap: the number of entries as u64, then the entries
serialize_map(m) ==
    {fixint(Cardinality(DOMAIN m), 8) \o es :
        es \in serialize_entries(m, DOMAIN m)}

\* NodeType: the variant index as u32, then the fields of the variant
serialize_node_type(t) ==
    IF t.tag = "Element"
    THEN {fixint(0, 4) \o serialize_str(t.tag_name) \o a :
             a \in serialize_map(t.attributes)}
    ELSE {fixint(1, 4) \o serialize_str(t.data)}

RECURSIVE serialize(_)
RECURSIVE serialize_seq(_, _)
\* the children from child k on, one after the other
serialize_seq(children, k) ==
    IF k > Len(children) THEN {<<>>}
    ELSE {c \o rest : c \in serialize(children[k]),
                      rest \in serialize_seq(children, k + 1)}

\* bincode::serialize(&node): node_type, then children as a Vec, its length
\* as u64 first; the set of the byte sequences it may give
serialize(n) ==
    {t \o fixint(Len(n.children), 8) \o cs :
        t \in serialize_node_type(n.node_type),
        cs \in serialize_seq(n.children, 1)}

\* mutant: the file is opened with append(true)
write_all_append(old, bin) == old \o bin

\* OpenOptions::new().write(true).create(true).open(path), write_all(&bin):
\* the file is not truncated, the bytes are written from its start and the
\* bytes behind them stay
write_all(old, bin) == bin \o SubSeq(old, Len(bin) + 1, Len(old))

\* a reader: the value read and the index of the first unread byte
Read(out, pos) == [ok |-> TRUE, out |-> out, pos |-> pos]

ReadErr == [ok |-> FALSE, out |-> <<>>, pos |-> 0]

\* u32: an unexpected end of the input is an error
deserialize_u32(b, i) ==
    IF i + 3 > Len(b) THEN ReadErr
    ELSE IF b[i + 3] >= 128 THEN ReadErr
    ELSE Read(b[i] + 256 * b[i + 1] + 65536 * b[i + 2] + 16777216 * b[i + 3],
              i + 4)

\* u64 as a length: one of 2^31 or more is longer than any input here
deserialize_len(b, i) ==
    IF i + 7 > Len(b) THEN ReadErr
    ELSE IF \E k \in 4..7 : b[i + k] # 0 THEN ReadErr
    ELSE IF ~deserialize_u32(b, i).ok THEN ReadErr
    ELSE Read(deserialize_u32(b, i).out, i + 8)

\* String, after its length was read
deserialize_str_bytes(b, l) ==
    IF ~l.ok THEN ReadErr
    ELSE IF l.pos + l.out - 1 > Len(b) THEN ReadErr
    ELSE Read([k \in 1..l.out |-> CharOf(b[l.pos + k - 1])], l.pos + l.out)

deserialize_str(b, i) == deserialize_str_bytes(b, deserialize_len(b, i))

RECURSIVE deserialize_entries(_, _, _, _)

\* an entry of the map, after its key k and its value v were read
deserialize_entry(b, n, acc, k, v) ==
    IF ~k.ok \/ ~v.ok THEN ReadErr
    ELSE deserialize_entries(b, v.pos, n - 1, Append(acc, <<k.out, v.out>>))

\* an entry of the map, after its key k was read
deserialize_entry_key(b, n, acc, k) ==
    IF ~k.ok THEN ReadErr
    ELSE deserialize_entry(b, n, acc, k, deserialize_str(b, k.pos))

\* n entries from byte i on, put into the map in the order read
deserialize_entries(b, i, n, acc) ==
    IF n = 0 THEN Read(AttrMap_from_iter(acc), i)
    ELSE deserialize_entry_key(b, n, acc, deserialize_str(b, i))

deserialize_map_len(b, l) ==
    IF ~l.ok THEN ReadErr ELSE deserialize_entries(b, l.pos, l.out, <<>>)

deserialize_map(b, i) == deserialize_map_len(b, deserialize_len(b, i))

\* Element, after tag_name and attributes were read
deserialize_element(name, a) ==
    IF ~name.ok \/ ~a.ok THEN ReadErr
    ELSE Read([tag |-> "Element", tag_name |-> name.out,
               attributes |-> a.out, data |-> <<>>], a.pos)

deserialize_element_name(b, name) ==
    IF ~name.ok THEN ReadErr
    ELSE deserialize_element(name, deserialize_map(b, name.pos))

\* Text, after data was read
deserialize_text(d) ==
    IF ~d.ok THEN ReadErr
    ELSE Read([tag |-> "Text", tag_name |-> <<>>,
               attributes |-> AttrMap_new, data |-> d.out], d.pos)

\* NodeType, after the variant index was read
deserialize_variant(b, v) ==
    IF ~v.ok THEN ReadErr
    ELSE IF v.out = 0
    THEN deserialize_element_name(b, deserialize_str(b, v.pos))
    ELSE IF v.out = 1 THEN deserialize_text(deserialize_str(b, v.pos))
    ELSE ReadErr

deserialize_node_type(b, i) == deserialize_variant(b, deserialize_u32(b, i))

RECURSIVE deserialize_node(_, _)
RECURSIVE deserialize_seq(_, _, _, _)

\* the children, after the child c was read
deserialize_seq_next(b, n, acc, c) ==
    IF ~c.ok THEN ReadErr
    ELSE deserialize_seq(b, c.pos, n - 1, Append(acc, c.out))

\* n nodes from byte i on
deserialize_seq(b, i, n, acc) ==
    IF n = 0 THEN Read(acc, i)
    ELSE deserialize_seq_next(b, n, acc, deserialize_node(b, i))

\* Node, after node_type t and the length l of children were read
deserialize_children(b, t, l) ==
    IF ~l.ok THEN ReadErr ELSE deserialize_seq(b, l.pos, l.out, <<>>)

deserialize_node_children(t, cs) ==
    IF ~cs.ok THEN ReadErr
    ELSE Read([node_type |-> t.out, children |-> cs.out], cs.pos)

deserialize_node_len(b, t) ==
    IF ~t.ok THEN ReadErr
    ELSE deserialize_node_children(
             t, deserialize_children(b, t, deserialize_len(b, t.pos)))

deserialize_node(b, i) == deserialize_node_len(b, deserialize_node_type(b, i))

S_failed_to_deserialize ==
    <<"F", "a", "i", "l", "e", "d", " ", "t", "o", " ", "d", "e", "s", "e",
      "r", "i", "a", "l", "i", "z", "e">>

\* bincode::deserialize(bytes) of fetch_dom: bytes behind the value are
\* allowed
deserialize(b) ==
    IF deserialize_node(b, 1).ok
    THEN [is_err |-> FALSE, value |-> deserialize_node(b, 1).out]
    ELSE [is_err |-> TRUE, value |-> S_failed_to_deserialize]

----------------------------------------------------------------------------
(* The v8 binding (binding.rs): the node objects handed to a script        *)

RECURSIVE escape_debug(_)
\* the characters of a string as {:?} writes them
escape_debug(s) ==
    IF s = <<>> THEN <<>>
    ELSE (CASE Head(s) = "\"" -> <<"\\", "\"">>
            [] Head(s) = "\\" -> <<"\\", "\\">>
            [] Head(s) = "\n" -> <<"\\", "n">>
            [] OTHER -> <<Head(s)>>)
         \o escape_debug(Tail(s))

\* {:?} of a String
debug_str(s) == <<"\"">> \o escape_debug(s) \o <<"\"">>

D_Node ==
    <<"N", "o", "d", "e", " ", "{", " ", "n", "o", "d", "e", "_", "t", "y",
      "p", "e", ":", " ">>

D_children ==
    <<",", " ", "c", "h", "i", "l", "d", "r", "e", "n", ":", " ">>

D_Element ==
    <<"E", "l", "e", "m", "e", "n", "t", "(", "E", "l", "e", "m", "e", "n",
      "t", " ", "{", " ", "t", "a", "g", "_", "n", "a", "m", "e", ":", " ">>

D_attributes ==
    <<",", " ", "a", "t", "t", "r", "i", "b", "u", "t", "e", "s", ":", " ">>

D_Text ==
    <<"T", "e", "x", "t", "(", "T", "e", "x", "t", " ", "{", " ", "d", "a",
      "t", "a", ":", " ">>

RECURSIVE debug_entries(_, _)
\* {:?} of the entries of a map, in any order
debug_entries(m, keys) ==
    IF keys = {} THEN {<<>>}
    ELSE UNION {{debug_str(k) \o <<":", " ">> \o debug_str(m[k])
                 \o (IF keys = {k} THEN <<>> ELSE <<",", " ">>) \o rest :
                    rest \in debug_entries(m, keys \ {k})} : k \in keys}

\* {:?} of a NodeType
debug_node_type(t) ==
    IF t.tag = "Element"
    THEN {D_Element \o debug_str(t.tag_name) \o D_attributes \o <<"{">>
          \o es \o <<"}", " ", "}", ")">> :
             es \in debug_entries(t.attributes, DOMAIN t.attributes)}
    ELSE {D_Text \o debug_str(t.data) \o <<" ", "}", ")">>}

RECURSIVE debug_node(_)
RECURSIVE debug_seq(_, _, _)
\* {:?} of the nodes from node k on, sep between any two
debug_seq(children, k, sep) ==
    IF k > Len(children) THEN {<<>>}
    ELSE {c \o (IF k < Len(children) THEN sep ELSE <<>>) \o rest :
             c \in debug_node(children[k]),
             rest \in debug_seq(children, k + 1, sep)}

\* format!("{:?}", node)
debug_node(n) ==
    {D_Node \o t \o D_children \o <<"[">> \o cs \o <<"]", " ", "}">> :
        t \in debug_node_type(n.node_type),
        cs \in debug_seq(n.children, 1, <<",", " ">>)}

\* Node::inner_html: {:?} of every child, joined by ""
inner_html(n) == debug_seq(n.children, 1, <<>>)

\* a node object of a script: the place of the Box<Node> it points to, as
\* the path from the root, and whether that place still exists
Handle(p, live) == [path |-> p, live |-> live]

\* the node objects after the children of the node at p were replaced: the
\* Vec that held them and all below it is freed
dropped_below(hs, p) ==
    [k \in DOMAIN hs |->
        IF Len(hs[k].path) > Len(p) /\ SubSeq(hs[k].path, 1, Len(p)) = p
        THEN Handle(hs[k].path, FALSE) ELSE hs[k]]

----------------------------------------------------------------------------
(* main of the engine: the markup is parsed, written to the file and given *)
(* to the Renderer, whose inline scripts call getElementById and read and  *)
(* assign innerHTML; fetch_dom of the renderer reads the file.             *)

\* <p id="a">   <p id="b" class="n">   </p>   x
V8Chunk ==
    [oa |-> <<"<", "p", " ", "i", "d", "=", "\"", "a", "\"", ">">>,
     ob |-> <<"<", "p", " ", "i", "d", "=", "\"", "b", "\"", " ", "c", "l", "a", "s",
           "s", "=", "\"", "n", "\"", ">">>,
     cp |-> <<"<", "/", "p", ">">>,
     tx |-> <<"x">>]

\* the markup assigned to innerHTML: x, <p id="b"></p>, and <
V8Html ==
    {<<"x">>,
     <<"<", "p", " ", "i", "d", "=", "\"", "b", "\"", ">", "<", "/", "p", ">">>,
     <<"<">>}

V8Ids == {<<"a">>, <<"b">>}

MaxV8Chunks == 4

MaxV8Ops == 4

InitV8 ==
    /\ dom = NoNode
    /\ file = <<>>
    /\ handles = <<>>
    /\ call = "none"
    /\ ret = NoRet
    /\ last = NoLast
    /\ ops = 0
    /\ src = <<>>
    /\ pad = <<>>
    /\ mutex = "free"

\* main: html::parse(&html), node.write_as_bin(..), Renderer::new(node)
V8Main(cs) ==
    /\ call = "none"
    /\ call' = "main"
    /\ IF parse(RunRender(V8Chunk, cs)).panic
       THEN /\ ret' = Panic
            /\ UNCHANGED <<dom, file, last>>
       ELSE /\ ret' = NoRet
            /\ dom' = parse(RunRender(V8Chunk, cs)).value
            /\ \E bin \in serialize(dom') : file' = write_all(file, bin)
            /\ last' = Done("main", <<>>, <<>>, dom')
    /\ UNCHANGED <<src, pad, ops, mutex, handles>>

\* a script is running: main came to execute_inline_scripts and no callback
\* has aborted the process
Scripting == call \notin {"none", "fetch_dom"} /\ ~ret.panic

\* document.getElementById(x): undefined, or a new node object
GetElementByIdV8(x) ==
    /\ Scripting
    /\ ops < MaxV8Ops
    /\ ops' = ops + 1
    /\ call' = "getElementById"
    /\ last' = Done("getElementById", get_element_by_id(dom, x).path, x,
                    last.out)
    /\ IF get_element_by_id(dom, x).some
       THEN /\ handles' = Append(handles,
                                 Handle(get_element_by_id(dom, x).path, TRUE))
            /\ ret' = Return(Len(handles'))
       ELSE /\ ret' = Return(0)
            /\ UNCHANGED handles
    /\ UNCHANGED <<src, pad, dom, mutex, file>>

\* the script reads h.innerHTML: to_linked_rust_node dereferences the
\* pointer of the node object; when its place was freed, the read may abort
\* or give what lies at any node now
ReadInnerHtml(h) ==
    /\ Scripting
    /\ ops < MaxV8Ops
    /\ ops' = ops + 1
    /\ call' = "innerHTML"
    /\ last' = Done("innerHTML", handles[h].path, handles[h], last.out)
    /\ IF handles[h].live
       THEN ret' \in {Return(t) : t \in inner_html(NodeAt(dom, handles[h].path))}
       ELSE ret' \in {Panic}
                     \cup UNION {{Return(t) : t \in inner_html(NodeAt(dom, q))} :
                                    q \in Paths(dom)}
    /\ UNCHANGED <<src, pad, dom, mutex, file, handles>>

\* the script assigns h.innerHTML = html: set_inner_html on the node of the
\* node object, then rerender() writes the tree to the file; when the place
\* of the node was freed, the assignment may abort, or change any node; malformed
\* markup aborts in parse_raw
AssignInnerHtml(h, html) ==
    /\ Scripting
    /\ ops < MaxV8Ops
    /\ ops' = ops + 1
    /\ call' = "innerHTML="
    /\ \E q \in IF handles[h].live THEN {handles[h].path} ELSE Paths(dom),
          abort \in IF handles[h].live THEN {FALSE} ELSE BOOLEAN :
          IF abort \/ set_inner_html(NodeAt(dom, q), html).panic
          THEN /\ ret' = Panic
               /\ last' = Done("innerHTML=", handles[h].path, handles[h],
                               last.out)
               /\ UNCHANGED <<dom, file, handles>>
          ELSE /\ ret' = NoRet
               /\ dom' = PutAt(dom, q,
                               set_inner_html(NodeAt(dom, q), html).value)
               /\ handles' = dropped_below(handles, q)
               /\ \E bin \in serialize(dom') : file' = write_all(file, bin)
               /\ last' = Done("innerHTML=", handles[h].path, handles[h],
                               dom')
    /\ UNCHANGED <<src, pad, mutex>>

\* fetch_dom of the renderer: the bytes of the file are deserialized
FetchDom ==
    /\ call # "none"
    /\ call # "fetch_dom"
    /\ call' = "fetch_dom"
    /\ ret' = Return(deserialize(file))
    /\ UNCHANGED <<src, pad, dom, last, ops, mutex, file, handles>>

NextV8 ==
    \/ \E cs \in UNION {[1..n -> DOMAIN V8Chunk] : n \in 0..MaxV8Chunks} :
          V8Main(cs)
    \/ \E x \in V8Ids : GetElementByIdV8(x)
    \/ \E h \in DOMAIN handles : ReadInnerHtml(h)
    \/ \E h \in DOMAIN handles, html \in V8Html : AssignInnerHtml(h, html)
    \/ FetchDom

SpecV8 == InitV8 /\ [][NextV8]_vars

\* C24: the bytes of the file deserialize to the tree written last, whatever
\* the file held before the write.
C24_RoundTrip ==
    (call = "fetch_dom" /\ last.op # "none") =>
        (~ret.value.is_err /\ ret.value.value = last.out)

\* the file still holds bytes of an earlier, longer serialization behind
\* those of the tree written last, which is read back
C24_Witness ==
    /\ call = "fetch_dom"
    /\ last.op = "innerHTML="
    /\ \A bin \in serialize(last.out) : Len(bin) < Len(file)
    /\ ret.value.value = last.out

\* C30: whenever a script reads or assigns innerHTML of a node object, the
\* place of the node it points to still exists in the tree.
C30_HandleIsLive ==
    call \in {"innerHTML", "innerHTML="} => last.arg.live

====
